---- MODULE Spec2Model ----
(***************************************************************************)
(* Maintenance triage of the property-management voice backend:            *)
(*   - analyze_urgency           (app/services/summary.py)                 *)
(*   - get_troubleshooting_tips  (app/services/troubleshooting.py)         *)
(* Python str values are TLA+ strings; substring tests, lower() and        *)
(* replace() are computed character by character.  A Python value is a     *)
(* record [t |-> <type name>, v |-> <text>] so that None and non-string    *)
(* JSON values can be passed where the code expects a str.                 *)
(***************************************************************************)
EXTENDS Integers, Sequences, FiniteSets, TLC

VARIABLES
    TROUBLESHOOTING_TIPS,   \* module-level tip catalog (a mutable dict)
    pc,                     \* "idle" | "returned" | "mutated"
    call,                   \* the invocation in progress: function and arguments
    ret,                    \* what that invocation returned (or raised)
    shared,                 \* the catalog list the returned tips list is (none: <<0, 0>>)
    prev,                   \* an earlier invocation and what it returned
    trace,                  \* the calls the endpoint in progress has made, in order
    ticket_rows,            \* number of rows of the maintenance_tickets table
    calls,                  \* rows of the calls table
    contacts,               \* rows of the contacts table
    memory_id_cache,        \* bland_memory._memory_id_cache
    cache_timestamp,        \* bland_memory._cache_timestamp
    clock                   \* time.time(), in seconds

\* the state outside the invocation in progress
\* the tables of the other endpoints and the memory-id cache
stores == <<calls, contacts, memory_id_cache, cache_timestamp, clock>>

others == <<shared, prev, trace, ticket_rows, stores>>

vars ==
    <<TROUBLESHOOTING_TIPS, pc, call, ret, shared, prev, trace, ticket_rows,
      calls, contacts, memory_id_cache, cache_timestamp, clock>>

-----------------------------------------------------------------------------
(* Python values *)

Str(s) == [t |-> "str", v |-> s]

None == [t |-> "NoneType", v |-> ""]

\* a JSON number: truthy, has no .lower()
IntValue == [t |-> "int", v |-> "5"]

\* a JSON array: truthy, unhashable
ListValue == [t |-> "list", v |-> "[x]"]

\* marks a key that a returned dict does not have
Absent == [t |-> "absent", v |-> ""]

IsStr(x) == x.t = "str"

\* bool(x) as used by "if description:"
Truthy(x) ==
    CASE x.t = "str" -> x.v # ""
      [] x.t = "NoneType" -> FALSE
      [] x.t = "dict" -> x.v # "{}"
      [] OTHER -> TRUE

\* dict.get(key) hashes the key; a list is unhashable (TypeError)
Hashable(x) == x.t # "list"

-----------------------------------------------------------------------------
(* str operations *)

\* Python "s in t" for two str
In(s, t) ==
    \E i \in 1..(Len(t) - Len(s) + 1) : SubSeq(t, i, i + Len(s) - 1) = s

\* str.lower() on the ASCII letters, character by character
LowerOf ==
    "A" :> "a" @@ "B" :> "b" @@ "C" :> "c" @@ "D" :> "d" @@ "E" :> "e" @@ "F" :> "f" @@
    "G" :> "g" @@ "H" :> "h" @@ "I" :> "i" @@ "J" :> "j" @@ "K" :> "k" @@ "L" :> "l" @@
    "M" :> "m" @@ "N" :> "n" @@ "O" :> "o" @@ "P" :> "p" @@ "Q" :> "q" @@ "R" :> "r" @@
    "S" :> "s" @@ "T" :> "t" @@ "U" :> "u" @@ "V" :> "v" @@ "W" :> "w" @@ "X" :> "x" @@
    "Y" :> "y" @@ "Z" :> "z"

\* one character of str.lower(); other characters are unchanged
LowerChar(c) == IF c \in DOMAIN LowerOf THEN LowerOf[c] ELSE c

RECURSIVE Lower(_)
\* str.lower()
Lower(s) ==
    IF s = "" THEN ""
    ELSE LowerChar(SubSeq(s, 1, 1)) \o Lower(SubSeq(s, 2, Len(s)))

RECURSIVE ReplaceSpaces(_)
\* str.replace(" ", "_")
ReplaceSpaces(s) ==
    IF s = "" THEN ""
    ELSE (IF SubSeq(s, 1, 1) = " " THEN "_" ELSE SubSeq(s, 1, 1))
         \o ReplaceSpaces(SubSeq(s, 2, Len(s)))

-----------------------------------------------------------------------------
(* app/services/summary.py : analyze_urgency *)

emergency_keywords ==
    << "flood", "flooding", "water leak", "burst pipe", "gas leak", "gas smell",
       "no heat", "no hot water", "no electricity", "power out", "fire",
       "smoke", "break in", "broken door", "broken window", "locked out",
       "sewage", "toilet overflow", "electrical spark", "sparking" >>

urgent_keywords ==
    << "no ac", "no air conditioning", "refrigerator not working", "fridge broken",
       "stove not working", "oven broken", "dishwasher leak", "washing machine leak",
       "toilet running", "sink clogged", "drain clogged" >>

RECURSIVE FirstKeywordIn_skipLast(_, _, _)
\* variant: the scan stops one keyword short of the end of the list
FirstKeywordIn_skipLast(keywords, description_lower, i) ==
    IF i >= Len(keywords) THEN 0
    ELSE IF In(keywords[i], description_lower) THEN i
    ELSE FirstKeywordIn_skipLast(keywords, description_lower, i + 1)

RECURSIVE FirstKeywordIn(_, _, _)
\* "for keyword in keywords: if keyword in description_lower: return ..."
\* index of the keyword the loop returns on, 0 when the loop falls through
FirstKeywordIn(keywords, description_lower, i) ==
    IF i > Len(keywords) THEN 0
    ELSE IF In(keywords[i], description_lower) THEN i
    ELSE FirstKeywordIn(keywords, description_lower, i + 1)

Returned(value) == [raised |-> FALSE, value |-> value]

Raised(exc) == [raised |-> TRUE, value |-> Str(exc)]

\* variant: the urgent list is scanned before the emergency list
analyze_urgency_urgentFirst(description) ==
    IF ~IsStr(description)
    THEN Raised("AttributeError")
    ELSE LET description_lower == Lower(description.v)
         IN  IF FirstKeywordIn(urgent_keywords, description_lower, 1) # 0
             THEN Returned(Str("urgent"))
             ELSE IF FirstKeywordIn(emergency_keywords, description_lower, 1) # 0
             THEN Returned(Str("emergency"))
             ELSE Returned(Str("routine"))

\* variant: no return statement after the two scans
analyze_urgency_noDefault(description) ==
    IF ~IsStr(description)
    THEN Raised("AttributeError")
    ELSE LET description_lower == Lower(description.v)
         IN  IF FirstKeywordIn(emergency_keywords, description_lower, 1) # 0
             THEN Returned(Str("emergency"))
             ELSE IF FirstKeywordIn(urgent_keywords, description_lower, 1) # 0
             THEN Returned(Str("urgent"))
             ELSE Returned(None)

\* lines 154-183
analyze_urgency(description) ==
    IF ~IsStr(description)
    THEN Raised("AttributeError")           \* description.lower() on a non-str
    ELSE LET description_lower == Lower(description.v)
         IN  IF FirstKeywordIn(emergency_keywords, description_lower, 1) # 0
             THEN Returned(Str("emergency"))
             ELSE IF FirstKeywordIn(urgent_keywords, description_lower, 1) # 0
             THEN Returned(Str("urgent"))
             ELSE Returned(Str("routine"))

-----------------------------------------------------------------------------
(* app/services/troubleshooting.py *)

\* initial contents of TROUBLESHOOTING_TIPS, in dict insertion order
\* (the degree sign of the two thermostat tips is left out)
TipCatalog ==
  <<
    [key |-> "plumbing", subcats |-> <<
        [key |-> "general", tips |-> <<
            "Check if the water supply valve is fully open",
            "Look for any visible leaks under sinks or behind toilets",
            "Try turning the water off and on again at the main valve" >>],
        [key |-> "toilet", tips |-> <<
            "Check if the water supply valve behind the toilet is fully open",
            "Try flushing - if no water flows, ensure the valve is open",
            "If overflowing, turn off the water supply valve immediately",
            "Check if the flapper inside the tank is properly sealing",
            "For clogs, try using a plunger with firm, steady pressure" >>],
        [key |-> "sink", tips |-> <<
            "Check if the faucet aerator is clogged (unscrew and clean)",
            "For slow drains, try hot water and dish soap first",
            "Check under the sink for visible leaks or loose connections",
            "Ensure the P-trap isn't clogged (place bucket underneath before removing)" >>],
        [key |-> "shower", tips |-> <<
            "Check if the showerhead is clogged (soak in vinegar for 30 minutes)",
            "Ensure the water supply valves are fully open",
            "For low pressure, clean the showerhead filter",
            "Check if other fixtures have water to isolate the issue" >>] >>],
    [key |-> "electrical", subcats |-> <<
        [key |-> "general", tips |-> <<
            "Check if the circuit breaker has tripped and reset if needed",
            "Try plugging a different device into the same outlet to test",
            "Do NOT attempt to repair electrical issues yourself",
            "If you smell burning or see sparks, evacuate and call 911" >>],
        [key |-> "outlet", tips |-> <<
            "Check the circuit breaker panel for tripped breakers",
            "Test with a different device to rule out device issues",
            "Look for GFCI outlets nearby and press the RESET button",
            "Do not use the outlet if it feels hot or looks damaged" >>],
        [key |-> "lights", tips |-> <<
            "Try replacing the light bulb first",
            "Check if other lights in the room work",
            "Ensure the light switch is functioning properly",
            "Check the circuit breaker for that area" >>] >>],
    [key |-> "hvac", subcats |-> <<
        [key |-> "general", tips |-> <<
            "Check if the thermostat is set to the correct mode (heat/cool)",
            "Ensure the thermostat batteries are working",
            "Check if the air filter needs replacing (do monthly)",
            "Make sure all vents are open and unobstructed" >>],
        [key |-> "heating", tips |-> <<
            "Set thermostat to heat mode and 5F above current temperature",
            "Check if the pilot light is on (if gas furnace)",
            "Ensure vents and radiators aren't blocked by furniture",
            "Replace air filter if it's dirty or clogged" >>],
        [key |-> "cooling", tips |-> <<
            "Set thermostat to cool mode and 5F below current temperature",
            "Check if the outdoor unit is running",
            "Clean or replace the air filter",
            "Ensure outdoor unit isn't blocked by debris or vegetation" >>] >>],
    [key |-> "appliance", subcats |-> <<
        [key |-> "general", tips |-> <<
            "Check if the appliance is properly plugged in",
            "Ensure the circuit breaker hasn't tripped",
            "Consult the appliance manual for troubleshooting steps",
            "Check if there's a reset button on the appliance" >>],
        [key |-> "refrigerator", tips |-> <<
            "Ensure the temperature is set between 37-40F",
            "Check if the door seals properly and isn't left open",
            "Clean the condenser coils (usually in back or bottom)",
            "Make sure vents inside aren't blocked by food items" >>],
        [key |-> "dishwasher", tips |-> <<
            "Check if the door latches properly",
            "Ensure the water supply valve under the sink is open",
            "Clean the filter at the bottom of the dishwasher",
            "Make sure the spray arms can rotate freely" >>],
        [key |-> "washer", tips |-> <<
            "Check if the water supply valves are fully open",
            "Ensure the drain hose isn't kinked or clogged",
            "Clean the lint filter if applicable",
            "Make sure the load is balanced" >>] >>],
    [key |-> "door_lock", subcats |-> <<
        [key |-> "general", tips |-> <<
            "Try using WD-40 or graphite lubricant on the lock mechanism",
            "Check if the key is worn or damaged",
            "Ensure the door is properly aligned with the frame",
            "Try the spare key if available" >>] >>],
    [key |-> "window", subcats |-> <<
        [key |-> "general", tips |-> <<
            "Check if the window lock is fully disengaged",
            "Clean the window tracks and remove debris",
            "Lubricate the window tracks with silicone spray",
            "Check for visible obstructions or damage" >>] >>]
  >>

\* line 140: issue_type.lower().replace(" ", "_")
normalize(issue_type) == ReplaceSpaces(Lower(issue_type))

\* lines 145-150
EmergencyTips ==
    << "This is an emergency situation - professional help is on the way",
       "If there's immediate danger, evacuate and call 911",
       "Do not attempt to fix this yourself",
       "Our maintenance team has been notified and will respond immediately" >>

\* lines 183-188
GenericTips ==
    << "Please document the issue with photos if possible",
       "Note when the problem started and if it's getting worse",
       "Check if the issue affects other areas of your unit",
       "Our maintenance team will assess and resolve the issue" >>

\* lines 144-154: the dict returned on the emergency path
EmergencyResult ==
    [ tips                 |-> EmergencyTips,
      can_self_resolve     |-> FALSE,
      estimated_resolution |-> "Emergency response dispatched",
      safety_warning       |-> Str("Please stay safe and do not attempt repairs"),
      category             |-> Absent,
      subcategory          |-> Absent,
      follow_up_message    |-> Absent ]

\* lines 212-219: the dict returned by the except branch
ExceptResult ==
    [ tips                 |-> << "Our maintenance team will assess and resolve your issue" >>,
      can_self_resolve     |-> FALSE,
      estimated_resolution |-> "1-3 business days",
      safety_warning       |-> Absent,
      category             |-> Str("general"),
      subcategory          |-> Absent,
      follow_up_message    |-> Absent ]

\* variant: the except branch returns the generic list of lines 183-188
Caught_genericList(exc) == [ExceptResult EXCEPT !.tips = GenericTips]

\* variant: the handler names one exception type and lets the others through
Caught_keyErrorOnly(exc) ==
    IF exc = "KeyError" THEN ExceptResult ELSE [raised |-> TRUE, value |-> Str(exc)]

\* lines 212-219: "except Exception" takes every exception the body raises
\* and returns the except-branch dict
Caught(exc) == ExceptResult

\* variant: the literal is capitalised
IsEmergency_capitalised(urgency) == urgency = Str("Emergency")

\* urgency == "emergency": line 143, and lines 311 and 620 of main.py
IsEmergency(urgency) == urgency = Str("emergency")

\* variant: an empty issue type matches no category
CategoryMatches_nonEmpty(cat, issue_type) ==
    In(cat, issue_type) \/ (issue_type # "" /\ In(issue_type, cat))

\* variant: the category key must occur in the issue type
CategoryMatches_oneWay(cat, issue_type) == In(cat, issue_type)

\* line 163: "cat in issue_type or issue_type in cat"
CategoryMatches(cat, issue_type) == In(cat, issue_type) \/ In(issue_type, cat)

RECURSIVE FindCategory(_, _)
\* lines 162-164, 179: position in the catalog of the category the loop
\* breaks on, 0 when the loop runs to its end
FindCategory(issue_type, i) ==
    IF i > Len(TROUBLESHOOTING_TIPS) THEN 0
    ELSE IF CategoryMatches(TROUBLESHOOTING_TIPS[i].key, issue_type) THEN i
    ELSE FindCategory(issue_type, i + 1)

\* variant: only the description is searched for the subcategory name
SubcatMatches_descriptionOnly(subcat, desc_lower, issue_type) ==
    subcat # "general" /\ In(subcat, desc_lower)

\* line 170
SubcatMatches(subcat, desc_lower, issue_type) ==
    subcat # "general" /\ (In(subcat, desc_lower) \/ In(subcat, issue_type))

RECURSIVE FindSubcategory(_, _, _, _)
\* lines 169-173: position in subcats of the subcategory the loop breaks on
FindSubcategory(subcats, desc_lower, issue_type, i) ==
    IF i > Len(subcats) THEN 0
    ELSE IF SubcatMatches(subcats[i].key, desc_lower, issue_type) THEN i
    ELSE FindSubcategory(subcats, desc_lower, issue_type, i + 1)

\* "general" in subcats
HasGeneral(subcats) == \E j \in 1..Len(subcats) : subcats[j].key = "general"

\* subcats["general"]
GeneralOf(subcats) ==
    subcats[CHOOSE j \in 1..Len(subcats) : subcats[j].key = "general"].tips

\* variant: the category's general list is never used
CategoryTips_noGeneral(subcats, si) ==
    IF si # 0 THEN subcats[si].tips ELSE << >>

\* lines 157, 172, 176-177: tips after the category branch; si is the
\* subcategory found (0 for none)
CategoryTips(subcats, si) ==
    LET found == IF si # 0 THEN subcats[si].tips ELSE << >>
    IN  IF found = << >> /\ HasGeneral(subcats)
        THEN found \o GeneralOf(subcats)
        ELSE found

\* variant: an empty list is returned as it is
WithFallback_none(tips) == tips

\* lines 182-188
WithFallback(tips) == IF tips = << >> THEN GenericTips ELSE tips

\* variant: every tier but emergency is eligible
can_self_resolve_anyNonEmergency(urgency, category) ==
    urgency # Str("emergency")
    /\ category \in {Str("plumbing"), Str("hvac"), Str("appliance")}

\* line 191
can_self_resolve(urgency, category) ==
    urgency = Str("routine")
    /\ category \in {Str("plumbing"), Str("hvac"), Str("appliance")}

\* variant: the urgent and routine entries are exchanged
resolution_time_exchanged(urgency) ==
    CASE urgency = Str("emergency") -> "0-2 hours"
      [] urgency = Str("urgent")    -> "1-3 business days"
      [] urgency = Str("routine")   -> "4-24 hours"
      [] OTHER                      -> "1-3 business days"

\* lines 194-198 (urgency is hashable here)
resolution_time(urgency) ==
    CASE urgency = Str("emergency") -> "0-2 hours"
      [] urgency = Str("urgent")    -> "4-24 hours"
      [] urgency = Str("routine")   -> "1-3 business days"
      [] OTHER                      -> "1-3 business days"

\* variant: the list is returned at its full length
FirstFive_uncut(tips) == tips

\* tips[:5]
FirstFive(tips) == SubSeq(tips, 1, IF Len(tips) < 5 THEN Len(tips) ELSE 5)

\* lines 156-210, entered with the normalized issue type
Resolve(issue_type, description, urgency) ==
    LET ci       == FindCategory(issue_type, 1)
        category == IF ci = 0 THEN None ELSE Str(TROUBLESHOOTING_TIPS[ci].key)
        subcats  == TROUBLESHOOTING_TIPS[ci].subcats
        scan     == ci # 0 /\ Truthy(description)
    IN  IF scan /\ ~IsStr(description)
        THEN Caught("AttributeError")       \* line 168: description.lower()
        ELSE
        LET si == IF scan
                  THEN FindSubcategory(subcats, Lower(description.v), issue_type, 1)
                  ELSE 0
            subcategory == IF si = 0 THEN None ELSE Str(subcats[si].key)
            tips == WithFallback(IF ci = 0 THEN << >> ELSE CategoryTips(subcats, si))
        IN  IF ~Hashable(urgency)
            THEN Caught("TypeError")        \* line 198: dict.get(urgency)
            ELSE
            [ tips                 |-> FirstFive(tips),
              can_self_resolve     |-> can_self_resolve(urgency, category),
              estimated_resolution |-> "Professional maintenance: " \o resolution_time(urgency),
              safety_warning       |-> Absent,
              category             |-> IF category = None THEN Str("general") ELSE category,
              subcategory          |-> subcategory,
              follow_up_message    |-> Str("Try these steps and let us know if the issue persists. Our maintenance team will follow up within the estimated timeframe.") ]

\* variant: the catalog is consulted first and the emergency branch is taken
\* only when no category was resolved
get_troubleshooting_tips_lookupFirst(issue_type, description, urgency) ==
    IF ~IsStr(issue_type)
    THEN ExceptResult
    ELSE LET r == Resolve(normalize(issue_type.v), description, urgency)
         IN  IF IsEmergency(urgency) /\ r.category = Str("general")
             THEN EmergencyResult
             ELSE r

\* lines 139-219
get_troubleshooting_tips(issue_type, description, urgency) ==
    IF ~IsStr(issue_type)
    THEN Caught("AttributeError")           \* line 140: issue_type.lower()
    ELSE IF IsEmergency(urgency)
    THEN EmergencyResult
    ELSE Resolve(normalize(issue_type.v), description, urgency)

\* dict.get(key, default)
DictGet(dict, key, default) == IF key \in DOMAIN dict THEN dict[key] ELSE default

\* f"{i}" for the small positive integers that number the tips
IntToStr(i) == << "1", "2", "3", "4", "5", "6", "7", "8", "9" >>[i]

\* tips[:3]
FirstThree(tips) == SubSeq(tips, 1, IF Len(tips) < 3 THEN Len(tips) ELSE 3)

RECURSIVE NumberedLines(_, _)
\* lines 253-254: "for i, tip in enumerate(shown, 1): message += ..."
NumberedLines(shown, i) ==
    IF i > Len(shown) THEN ""
    ELSE IntToStr(i) \o ". " \o shown[i] \o "\n" \o NumberedLines(shown, i + 1)

\* variant: every tip is rendered
format_tips_for_sms_uncapped(tips_data) ==
    LET tips == DictGet(tips_data, "tips", << >>)
    IN  IF tips = << >>
        THEN "Maintenance request received. Our team will contact you soon."
        ELSE "Troubleshooting tips:\n"
             \o NumberedLines(tips, 1)
             \o "\nETA: " \o DictGet(tips_data, "estimated_resolution", "Soon")

\* lines 244-258
format_tips_for_sms(tips_data) ==
    LET tips == DictGet(tips_data, "tips", << >>)
    IN  IF tips = << >>
        THEN "Maintenance request received. Our team will contact you soon."
        ELSE "Troubleshooting tips:\n"
             \o NumberedLines(FirstThree(tips), 1)
             \o "\nETA: " \o DictGet(tips_data, "estimated_resolution", "Soon")

\* the list object returned under "tips" is no list of the catalog
NoList == <<0, 0>>

\* variant: "tips = subcats[subcat]" and "return tips": the subcategory's own
\* list is handed out
ListSharedWith_subcategory(issue_type, description, urgency) ==
    IF ~IsStr(issue_type) \/ IsEmergency(urgency) THEN NoList
    ELSE LET n  == normalize(issue_type.v)
             ci == FindCategory(n, 1)
         IN  IF ci = 0 \/ ~IsStr(description) \/ ~Truthy(description) THEN NoList
             ELSE LET si == FindSubcategory(TROUBLESHOOTING_TIPS[ci].subcats,
                                            Lower(description.v), n, 1)
                  IN  IF si = 0 THEN NoList ELSE <<ci, si>>

\* lines 145, 157, 172, 177, 183, 201, 215: the returned list is a list
\* literal or the slice tips[:5] of a list built by extend(), which copies;
\* it is a new object on every path
ListSharedWith(issue_type, description, urgency) == NoList

-----------------------------------------------------------------------------
(* app/main.py : the tool endpoints that use the classifier and the advisor *)
(* The JSON body is a record with the keys the handler reads; a key the     *)
(* body does not have holds Absent.                                         *)

\* data.get(key, default)
DataGet(data, key, default) == IF data[key] = Absent THEN default ELSE data[key]

\* one call the handler made: what was called, with what, and what came back
Event(op, arg, result) == [op |-> op, arg |-> arg, result |-> result]

\* variant: the slice of the notes, tips[:3], is also the one spoken
FirstTwo_three(tips) == SubSeq(tips, 1, IF Len(tips) < 3 THEN Len(tips) ELSE 3)

\* tips[:2]
FirstTwo(tips) == SubSeq(tips, 1, IF Len(tips) < 2 THEN Len(tips) ELSE 2)

RECURSIVE SpokenTips(_, _)
\* lines 331-332 and 631-632: response += f"{i}. {tip}. "
SpokenTips(shown, i) ==
    IF i > Len(shown) THEN ""
    ELSE IntToStr(i) \o ". " \o shown[i] \o ". " \o SpokenTips(shown, i + 1)

RECURSIVE Join(_, _)
\* '; '.join(tips), from the i-th tip on
Join(tips, i) ==
    IF i > Len(tips) THEN ""
    ELSE IF i = Len(tips) THEN tips[i]
    ELSE tips[i] \o "; " \o Join(tips, i + 1)

\* the units table: app/scripts/seed_data.py
UnitsTable == {"101", "102"}

\* variant: the query lacks .eq("unit_number", unit_number) and answers with
\* the first row of the table
get_unit_by_number_firstRow(unit_number, db_ok) ==
    IF db_ok
    THEN [id |-> "unit-101", property_id |-> "prop-1"]
    ELSE None

\* lines 116-133 of database.py: the row of the unit, or None when there is
\* no such unit or the query failed
get_unit_by_number(unit_number, db_ok) ==
    IF db_ok /\ IsStr(unit_number) /\ unit_number.v \in UnitsTable
    THEN [id |-> "unit-" \o unit_number.v, property_id |-> "prop-1"]
    ELSE None

\* the id the table gives its n-th row
TicketId(n) == "7c9e667" \o IntToStr(n) \o "-7425"

\* str(ticket["id"])[:8]: the rows carry no ticket_number column
TicketNumber(ticket) == SubSeq(ticket.id, 1, 8)

\* variant: "urgency = await analyze_urgency(description)" without the test
NeedsClassifier_always(urgency) == TRUE

\* line 282: "if not urgency"
NeedsClassifier(urgency) == ~Truthy(urgency)

\* lines 311-350: the spoken response
TicketResponse(ticket_number, urgency, tips) ==
    IF IsEmergency(urgency)
    THEN "I've created an emergency work order, ticket number " \o ticket_number \o ". "
         \o "I'm dispatching our emergency maintenance team right now. "
         \o "For your safety, please do not attempt any repairs yourself. "
         \o "Someone will be there within 2 hours. Please make sure they can access your unit. "
         \o "Is there anything else you need while you wait?"
    ELSE IF tips # << >> /\ urgency \in {Str("urgent"), Str("routine")}
    THEN "I've created maintenance ticket number " \o ticket_number \o ". "
         \o (IF urgency = Str("urgent")
             THEN "Our team will be out within 24 hours. "
             ELSE "Our team will schedule this within 3 to 5 business days. ")
         \o "While you wait, here are some quick steps you can try: "
         \o SpokenTips(FirstTwo(tips), 1)
         \o "These might help resolve the issue, but our team will follow up regardless. Is there anything else I can help you with?"
    ELSE IF urgency = Str("urgent")
    THEN "I've created an urgent maintenance ticket, number " \o ticket_number \o ". "
         \o "Our team will be out within 24 hours to take care of this. "
         \o "We'll call you before arriving. Is there a specific time that works best for you?"
    ELSE "I've created maintenance ticket number " \o ticket_number \o " for you. "
         \o "Our team will schedule this within 3 to 5 business days. "
         \o "We'll call you the day before to confirm a time. "
         \o "Is there anything else I can help you with today?"

\* what a run of the handler leaves: the JSON it answers with, the calls it
\* made, and the number of rows of the table
Outcome(response, events, rows) == [ret |-> response, trace |-> events, rows |-> rows]

\* lines 295-367: from the insert to the return
InsertAndAdvise(unit, issue_type, description, urgency, events, insert_ok, notes_ok, rows) ==
    LET ticket_data == [ unit_id     |-> unit.id,
                         property_id |-> unit.property_id,
                         issue_type  |-> issue_type,
                         urgency     |-> urgency,
                         description |-> description,
                         status      |-> "open" ]
        ticket == IF insert_ok
                  THEN [id |-> TicketId(rows + 1)] @@ ticket_data
                  ELSE None
        inserted == events \o << Event("create_maintenance_ticket", ticket_data, ticket) >>
    IN  IF ticket = None
        THEN Outcome([response |-> "I apologize, but I'm having trouble creating the ticket right now. Let me transfer you to our maintenance team directly."],
                     inserted, rows)
        ELSE
        LET tips_data == get_troubleshooting_tips(issue_type, description, urgency)
            tips == DictGet(tips_data, "tips", << >>)
            advised == inserted \o << Event("get_troubleshooting_tips",
                                            <<issue_type, description, urgency>>,
                                            tips_data) >>
            notes == "Troubleshooting tips provided: " \o Join(FirstThree(tips), 1)
            noted == IF tips = << >> THEN advised
                     ELSE advised \o << Event("update_notes", Str(notes),
                                              IF notes_ok THEN Str("ok") ELSE Str("failed")) >>
        IN  Outcome([ response |-> TicketResponse(TicketNumber(ticket), urgency, tips),
                      ticket_id |-> ticket.id,
                      ticket_number |-> TicketNumber(ticket),
                      troubleshooting_tips |-> FirstThree(tips),
                      estimated_resolution |->
                          DictGet(tips_data, "estimated_resolution", None) ],
                    noted, rows + 1)

\* lines 242-374 of main.py
create_maintenance_ticket(data, db_ok, insert_ok, notes_ok, rows) ==
    LET unit_number == DataGet(data, "unit_number", None)
        issue_type  == DataGet(data, "issue_type", Str("General Maintenance"))
        description == DataGet(data, "description", Str(""))
        declared    == DataGet(data, "urgency", None)
    IN  IF ~Truthy(unit_number)
        THEN Outcome([response |-> "I need your unit number to create a maintenance ticket. What unit do you live in?"],
                     << >>, rows)
        ELSE
        LET unit == get_unit_by_number(unit_number, db_ok)
            looked == << Event("get_unit_by_number", unit_number, unit) >>
        IN  IF unit = None
            THEN Outcome([response |-> "I couldn't find unit " \o unit_number.v
                            \o " in our system. Could you double-check that unit number for me? It should be something like 101, 2B, or similar."],
                         looked, rows)
            ELSE IF NeedsClassifier(declared)
            THEN LET detected == analyze_urgency(description)
                     classified == looked \o << Event("analyze_urgency", description, detected) >>
                 IN  IF detected.raised
                     \* lines 369-374: the handler's own except branch
                     THEN Outcome([response |-> "I apologize, but I'm having technical difficulties creating that ticket. Let me transfer you to our maintenance line so you can speak with someone directly."],
                                  classified, rows)
                     ELSE InsertAndAdvise(unit, issue_type, description, detected.value,
                                          classified, insert_ok, notes_ok, rows)
            ELSE InsertAndAdvise(unit, issue_type, description, declared,
                                 looked, insert_ok, notes_ok, rows)

\* lines 620-636: the spoken response of the tips endpoint
TipsResponse(urgency, tips, tips_data) ==
    IF IsEmergency(urgency)
    THEN "This is an emergency situation. For your safety, please do not attempt any repairs yourself. "
         \o "Our maintenance team has been notified and will respond immediately. "
         \o "If you're in immediate danger, please call 911."
    ELSE IF tips # << >>
    THEN "While waiting for our maintenance team, here are some troubleshooting steps you can try: "
         \o SpokenTips(FirstThree(tips), 1)
         \o "Our team will follow up within "
         \o DictGet(tips_data, "estimated_resolution", "1-3 business days") \o ". "
         \o (IF DictGet(tips_data, "can_self_resolve", FALSE)
             THEN "If these steps resolve the issue, great! Otherwise, we'll take care of it for you."
             ELSE "")
    ELSE "Our maintenance team will assess and resolve your issue. They'll contact you soon."

\* lines 595-652 of main.py
get_troubleshooting_tips_endpoint(data) ==
    LET issue_type  == DataGet(data, "issue_type", Str("general"))
        description == DataGet(data, "description", Str(""))
        urgency     == DataGet(data, "urgency", Str("routine"))
        tips_data   == get_troubleshooting_tips(issue_type, description, urgency)
        tips        == DictGet(tips_data, "tips", << >>)
    IN  [ ret   |-> [ response |-> TipsResponse(urgency, tips, tips_data),
                      tips |-> tips,
                      estimated_resolution |->
                          DictGet(tips_data, "estimated_resolution", None),
                      can_self_resolve |-> DictGet(tips_data, "can_self_resolve", FALSE) ],
          trace |-> << Event("get_troubleshooting_tips",
                             <<issue_type, description, urgency>>, tips_data) >> ]

-----------------------------------------------------------------------------
(* app/services/bland_memory.py *)

\* time.time() as a Python float
Time(n) == [t |-> "float", n |-> n]

\* what the remote API can answer to the listing of line 28 and to the
\* creation of line 47; "error" is a non-200 reply or a raised exception
ListReplies == {"found", "not_found", "error"}

CreateReplies == {"created", "error"}

\* ids the remote API hands out (the store can be deleted and made again),
\* and a reply that carries no id
RemoteIds == {Str("mem-1"), Str("mem-2"), None}

\* lines 16-67: the memory id, or None
get_or_create_memory_store(list_reply, create_reply, remote_id) ==
    CASE list_reply = "found" -> remote_id
      [] list_reply = "not_found" /\ create_reply = "created" -> remote_id
      [] OTHER -> None

\* the cache after a lookup, the id handed out, and the remote calls made
CacheOutcome(value, cache, timestamp, events) == [value |-> value, cache |-> cache, timestamp |-> timestamp, events |-> events]

\* variant: the fetched value is stored whatever it is
CacheAfterFetch_always(memory_id, cache, timestamp, now) ==
    [cache |-> memory_id, timestamp |-> Time(now)]

\* lines 158-160: "if memory_id:" stores the id and the time
CacheAfterFetch(memory_id, cache, timestamp, now) ==
    IF Truthy(memory_id)
    THEN [cache |-> memory_id, timestamp |-> Time(now)]
    ELSE [cache |-> cache, timestamp |-> timestamp]

\* line 153: the cached id is there and younger than an hour
CacheIsFresh(cache, timestamp, now) ==
    Truthy(cache) /\ Truthy(timestamp) /\ now - timestamp.n < 3600

\* lines 147-162
get_cached_memory_id(cache, timestamp, now, list_reply, create_reply, remote_id) ==
    IF CacheIsFresh(cache, timestamp, now)
    THEN CacheOutcome(cache, cache, timestamp, << >>)
    ELSE LET memory_id == get_or_create_memory_store(list_reply, create_reply, remote_id)
             after == CacheAfterFetch(memory_id, cache, timestamp, now)
         IN  CacheOutcome(memory_id, after.cache, after.timestamp,
                          << Event("get_or_create_memory_store", list_reply, memory_id) >>)

-----------------------------------------------------------------------------
(* app/main.py : the call-ended webhook, with the functions it calls in     *)
(* database.py, summary.py and email.py                                      *)

\* a or b
Or(a, b) == IF Truthy(a) THEN a ELSE b

\* data.get(key)
Get(data, key) == DataGet(data, key, None)

\* the JSON object {} and an object of call variables
EmptyDict == [t |-> "dict", v |-> "{}"]

Variables == [t |-> "dict", v |-> "{contact_name: Ana}"]

\* a JSON array of 21 utterances
Utterances == [t |-> "list", v |-> "[u1 .. u21]"]

\* len(x) of a str or a list; len() of a number raises TypeError
PyLen(x) ==
    CASE IsStr(x) -> Len(x.v)
      [] x = Utterances -> 21
      [] OTHER -> 1

DigitOf ==
    "0" :> 0 @@ "1" :> 1 @@ "2" :> 2 @@ "3" :> 3 @@ "4" :> 4 @@
    "5" :> 5 @@ "6" :> 6 @@ "7" :> 7 @@ "8" :> 8 @@ "9" :> 9

RECURSIVE IntPart(_, _, _)
\* int(float(s)) for a str of digits with at most one point; 0 for any other
\* str (the ValueError of line 674), read from the i-th character with the
\* integer part so far in acc
IntPart(s, i, acc) ==
    IF i > Len(s) THEN acc
    ELSE LET c == SubSeq(s, i, i)
         IN  IF c \in DOMAIN DigitOf THEN IntPart(s, i + 1, 10 * acc + DigitOf[c])
             ELSE IF c = "." /\ i > 1
                     /\ \A j \in (i + 1)..Len(s) : SubSeq(s, j, j) \in DOMAIN DigitOf
             THEN acc
             ELSE 0

\* lines 671-680: the duration in whole seconds
Duration(raw_duration) ==
    CASE ~Truthy(raw_duration) -> Returned(0)
      [] IsStr(raw_duration) -> Returned(IntPart(raw_duration.v, 1, 0))
      [] raw_duration.t = "int" -> Returned(IntPart(raw_duration.v, 1, 0))
      [] OTHER -> Raised("TypeError")           \* float() of a list

RECURSIVE Strip(_)
\* str.strip() for blanks
Strip(s) ==
    IF s = "" THEN s
    ELSE IF SubSeq(s, 1, 1) = " " THEN Strip(SubSeq(s, 2, Len(s)))
    ELSE IF SubSeq(s, Len(s), Len(s)) = " " THEN Strip(SubSeq(s, 1, Len(s) - 1))
    ELSE s

\* what the language model call can do
LlmReplies == {"summary", "failed"}

\* lines 89-152 of summary.py
generate_call_summary(transcript, llm) ==
    IF ~Truthy(transcript)
    THEN Returned([call_type |-> "general", sentiment |-> "neutral",
                   overview |-> "Call transcript too short to analyze"])
    ELSE IF ~IsStr(transcript)
    THEN Raised("AttributeError")               \* line 99: transcript.strip()
    ELSE IF Len(Strip(transcript.v)) < 10
    THEN Returned([call_type |-> "general", sentiment |-> "neutral",
                   overview |-> "Call transcript too short to analyze"])
    ELSE IF llm = "summary"
    THEN Returned([call_type |-> "maintenance", sentiment |-> "negative",
                   overview |-> "Tenant reports a leak"])
    ELSE Returned([call_type |-> "general", sentiment |-> "neutral",
                   overview |-> "Error generating summary"])

\* what the REST insert can do: the row comes back, or the reply is not ok,
\* or the request raises
InsertReplies == {"inserted", "rejected"}

\* the id the calls table gives its n-th row
CallId(n) == "call-" \o IntToStr(n)

\* lines 139-151 and 44-59 of database.py: the new row, or None
create_call_record(call_record, reply, table) ==
    IF reply = "inserted"
    THEN [id |-> CallId(Len(table) + 1), from_number |-> call_record.from_number]
    ELSE None

\* the table after the insert: the columns the handler writes later are empty
CallsAfterInsert(table, saved_call) ==
    IF saved_call = None THEN table
    ELSE Append(table, [id |-> saved_call.id, from_number |-> saved_call.from_number,
                        summary |-> None, email_sent |-> FALSE])

\* lines 154-158 and 62-80 of database.py: the table after the PATCH
update_call_record(table, call_id, updates, ok) ==
    IF ~ok THEN table
    ELSE [i \in DOMAIN table |->
            IF table[i].id # call_id THEN table[i]
            ELSE [k \in DOMAIN table[i] |->
                    IF k \in DOMAIN updates THEN updates[k] ELSE table[i][k]]]

\* lines 212-265 of email.py: True when the send went through
send_call_summary_email(recipient_email, manager_email, send_ok) ==
    LET recipient == Or(recipient_email, manager_email)
    IN  IF ~Truthy(recipient) THEN FALSE ELSE send_ok

\* what the POST of line 115 can do; "exception" is a raise before it
PostReplies == {"200", "404", "timeout", "network_error", "exception"}

\* lines 70-140 of bland_memory.py: True when the remote store took the update
update_user_memory(phone_number, cache, timestamp, now, list_reply, post_reply) ==
    LET lookup == get_cached_memory_id(cache, timestamp, now, list_reply,
                                       "created", Str("mem-1"))
        posted == lookup.events \o << Event("memory_update", phone_number, post_reply) >>
    IN  IF ~Truthy(lookup.value)
        THEN CacheOutcome(FALSE, lookup.cache, lookup.timestamp, lookup.events)
        ELSE IF post_reply = "exception"
        THEN CacheOutcome(FALSE, lookup.cache, lookup.timestamp, lookup.events)
        ELSE CacheOutcome(post_reply = "200", lookup.cache, lookup.timestamp, posted)

\* what a delivery leaves: the HTTP reply, the calls made, the calls table
\* and the memory-id cache
Delivered(response, events, table, cache, timestamp) == [ret |-> response, trace |-> events, calls |-> table, cache |-> cache, timestamp |-> timestamp]

\* lines 780-785: the reply of the outer except branch
ServerError(exc) ==
    [status_code |-> 500, content |-> [status |-> "error", message |-> exc]]

\* lines 774-778: the reply after the call was saved
Processed(call_id) ==
    [status_code |-> 200,
     content |-> [status |-> "success", call_id |-> call_id,
                  message |-> "Call processed successfully"]]

\* variant: the test is >= 20
LongEnough_inclusive(transcript) == PyLen(transcript) >= 20

\* line 714: len(transcript) > 20
LongEnough(transcript) == PyLen(transcript) > 20

\* variant: the reply of the except branch is used
SaveFailed_serverError ==
    [status_code |-> 500,
     content |-> [status |-> "error",
                  message |-> "Failed to save call record to database",
                  received |-> TRUE]]

\* lines 700-706: the reply when the call could not be saved
SaveFailed ==
    [status_code |-> 200,
     content |-> [status |-> "error",
                  message |-> "Failed to save call record to database",
                  received |-> TRUE]]

\* variant: the flag is written without the test
ShouldFlag_always(email_sent) == TRUE

\* line 733: "if email_sent:"
ShouldFlag(email_sent) == email_sent

\* variant: the memory update sits inside "if email_sent:"
ShouldUpdateMemory_afterEmail(phone_number, email_sent) ==
    Truthy(phone_number) /\ email_sent

\* line 744: "if phone_number:"
ShouldUpdateMemory(phone_number, email_sent) == Truthy(phone_number)

\* lines 714-768: from the summary to the memory update
Summarize(call_record, call_id, summary, env, events, table, cache, timestamp, now) ==
    LET stored == update_call_record(table, call_id,
                      [summary |-> summary, call_type |-> summary.call_type,
                       sentiment |-> summary.sentiment], env.store_ok)
        e3 == events \o << Event("update_call_record", [summary |-> summary], env.store_ok) >>
        email_sent == send_call_summary_email(env.manager_email, env.manager_email,
                                              env.send_ok)
        e4 == e3 \o << Event("send_call_summary_email", env.manager_email, email_sent) >>
        flagged == IF ShouldFlag(email_sent)
                   THEN update_call_record(stored, call_id,
                            [email_sent |-> TRUE, email_sent_at |-> Time(now)], env.flag_ok)
                   ELSE stored
        e5 == IF ShouldFlag(email_sent)
              THEN e4 \o << Event("update_call_record", [email_sent |-> TRUE], env.flag_ok) >>
              ELSE e4
        phone_number == call_record.from_number
    IN  IF ~ShouldUpdateMemory(phone_number, email_sent)
        THEN Delivered(Processed(call_id), e5, flagged, cache, timestamp)
        ELSE LET memory == update_user_memory(phone_number, cache, timestamp, now,
                                              env.list_reply, env.post_reply)
             IN  Delivered(Processed(call_id),
                           e5 \o memory.events
                              \o << Event("update_user_memory", phone_number, memory.value) >>,
                           flagged, memory.cache, memory.timestamp)

\* lines 659-785 of main.py
bland_call_ended_webhook(data, env, table, cache, timestamp, now) ==
    LET duration == Duration(Get(data, "call_length"))
        call_record ==
            [ bland_call_id |-> Get(data, "call_id"),
              from_number   |-> Or(Get(data, "from"), Get(data, "to_number")),
              to_number     |-> Or(Get(data, "to_number"), Get(data, "from")),
              duration      |-> duration.value,
              transcript    |-> Or(Get(data, "concatenated_transcript"),
                                   DataGet(data, "transcripts", Str(""))),
              status        |-> "completed",
              metadata      |-> Or(Get(data, "variables"), EmptyDict) ]
        saved_call == create_call_record(call_record, env.save, table)
        saved == << Event("create_call_record", call_record, saved_call) >>
        transcript == call_record.transcript
    IN  IF duration.raised
        THEN Delivered(ServerError("TypeError"), << >>, table, cache, timestamp)
        ELSE IF saved_call = None
        THEN Delivered(SaveFailed, saved, table, cache, timestamp)
        ELSE
        LET inserted == CallsAfterInsert(table, saved_call)
            summary == generate_call_summary(transcript, env.llm)
            generated == saved \o << Event("generate_call_summary", transcript, summary) >>
        IN  IF ~Truthy(transcript)
            THEN Delivered(Processed(saved_call.id), saved, inserted, cache, timestamp)
            ELSE IF transcript.t = "int"            \* line 714: len() of a number
            THEN Delivered(ServerError("TypeError"), saved, inserted, cache, timestamp)
            ELSE IF ~LongEnough(transcript)
            THEN Delivered(Processed(saved_call.id), saved, inserted, cache, timestamp)
            ELSE IF summary.raised
            THEN Delivered(ServerError("AttributeError"), generated, inserted, cache, timestamp)
            ELSE Summarize(call_record, saved_call.id, summary.value, env, generated,
                           inserted, cache, timestamp, now)

-----------------------------------------------------------------------------
(* main.py: the validate-contact endpoint, and database.py's contact lookup *)

\* what the select of line 256 can do
SelectReplies == {"rows", "error"}

\* what the insert of line 279 can do: the new row comes back, no row comes
\* back, or the request raises
ContactInsertReplies == {"inserted", "no_data", "error"}

\* the id the contacts table gives its n-th row
ContactId(n) == Str("contact-" \o IntToStr(n))

\* what the lookup leaves: the contact or None, the calls made, the table
Lookup(contact, events, table) == [value |-> contact, events |-> events, contacts |-> table]

\* line 258: "if result.data:" is false, the lookup goes on to the insert
CreatesContact(found) == found = {}

\* lines 243-284 of database.py, called with the phone alone: name and email
\* are None, contact_type is "prospect"
find_or_create_contact(phone, table, select, insert) ==
    LET found == { c \in table : c.phone = phone }
        selected == << Event("contacts.select", phone,
                             IF select = "error" THEN Str("error")
                             ELSE IF found = {} THEN None
                             ELSE CHOOSE c \in found : TRUE) >>
        new_contact == [phone |-> phone, name |-> None, email |-> None,
                        type |-> Str("prospect")]
        row == [id |-> ContactId(Cardinality(table) + 1), phone |-> phone,
                name |-> None, email |-> None, type |-> Str("prospect")]
    IN  IF select = "error"
        THEN Lookup(None, selected, table)
        ELSE IF ~CreatesContact(found)
        THEN Lookup(IF found = {} THEN None ELSE CHOOSE c \in found : TRUE,
                    selected, table)
        ELSE IF insert = "error"
        THEN Lookup(None, selected \o << Event("contacts.insert", new_contact, Str("error")) >>,
                    table)
        ELSE IF insert = "no_data"
        THEN Lookup(None, selected \o << Event("contacts.insert", new_contact, None) >>,
                    table)
        ELSE Lookup(row, selected \o << Event("contacts.insert", new_contact, row) >>,
                    table \cup {row})

\* what the count query of line 563 can do
CountReplies == {"count", "error"}

\* lines 561-566: the number of calls from this phone, 0 when the query
\* raises
CallCount(phone, table, reply) ==
    IF reply = "error" THEN 0
    ELSE Cardinality({ i \in DOMAIN table : table[i].from_number = phone })

\* f"{call_count}"
FormatCount(n) == IF n = 0 THEN "0" ELSE IntToStr(n)

\* f"{...}" of a name: a str as it is, None as "None"
FormatName(name) == IF IsStr(name) THEN name.v ELSE "None"

\* lines 545-549
NoPhone == [contact_found |-> FALSE, message |-> "No phone number provided"]

\* lines 554-558
NewCaller == [contact_found |-> FALSE, message |-> "New caller - no previous record"]

\* lines 587-592: the reply of the outer except branch
LookupError == [contact_found |-> FALSE, message |-> "Error looking up contact information"]

\* lines 569-577: the reply for a contact that is not a tenant
ContactResponse(contact, call_count) ==
    [ contact_found |-> TRUE,
      contact_id    |-> contact.id,
      name          |-> contact.name,
      email         |-> contact.email,
      contact_type  |-> contact.type,
      previous_calls |-> call_count,
      context       |-> "Returning caller: "
                        \o Or(contact.name, Str("caller")).v
                        \o " has called " \o FormatCount(call_count)
                        \o " time(s) before." ]

\* lines 569-582: the reply for a tenant
TenantResponse(contact, call_count) ==
    [ contact_found |-> TRUE,
      contact_id    |-> contact.id,
      name          |-> contact.name,
      email         |-> contact.email,
      contact_type  |-> contact.type,
      previous_calls |-> call_count,
      is_tenant     |-> TRUE,
      context       |-> "Verified tenant: " \o FormatName(contact.name)
                        \o ". Previous calls: " \o FormatCount(call_count) \o "." ]

\* what a validation leaves: the reply, the calls made, the contacts table
Validated(response, events, table) == [ret |-> response, trace |-> events, contacts |-> table]

\* lines 527-592 of main.py
validate_contact(data, env, table, calls_table) ==
    LET raw == DataGet(data, "phone_number", Str(""))
    IN  IF ~IsStr(raw)
        THEN Validated(LookupError, << >>, table)           \* line 541: .strip()
        ELSE
        LET phone == Str(Strip(raw.v))
            lookup == find_or_create_contact(phone, table, env.select, env.insert)
            contact == lookup.value
            call_count == CallCount(phone, calls_table, env.count)
            events == lookup.events \o << Event("calls.count", phone, call_count) >>
        IN  IF ~Truthy(phone)
            THEN Validated(NoPhone, << >>, table)
            ELSE IF contact = None
            THEN Validated(NewCaller, lookup.events, lookup.contacts)
            ELSE IF contact.type = Str("tenant")
            THEN Validated(TenantResponse(contact, call_count), events, lookup.contacts)
            ELSE Validated(ContactResponse(contact, call_count), events, lookup.contacts)

-----------------------------------------------------------------------------
(* Inputs *)

\* number of fragments a classifier description is concatenated from
MaxFrags == 2

\* number of fragments an advisor description is concatenated from
MaxTipFrags == 1

KeywordSet(keywords) == {keywords[i] : i \in 1..Len(keywords)}

\* pieces of the descriptions given to the classifier: keywords of both
\* lists (first and last ones among them), some in other letter cases, and
\* pieces that form a keyword only when joined
Fragments ==
    { "flood", "gas leak", "Gas Leak", "FIRE", "no hot water", "toilet overflow",
      "sparking",
      "no ac", "No AC", "fridge broken", "dishwasher leak", "toilet running",
      "sink clogged", "drain clogged",
      " ", "no ", "heat", " leak", "water", "place" }

\* pieces of the descriptions given to the advisor
TipFragments ==
    { "it keeps running", "Toilet is clogged", "shower and sink", "Outlet",
      "cooling and heating", "washer", "dishwasher", " " }

RECURSIVE Concats(_, _)
\* all concatenations of at most n members of frags
Concats(frags, n) ==
    IF n = 0 THEN {""}
    ELSE LET shorter == Concats(frags, n - 1)
         IN  shorter \cup {a \o f : a \in shorter, f \in frags}

\* every keyword on its own, the concatenations of fragments, and None
ClassifierDescriptions ==
    {Str(s) : s \in Concats(Fragments, MaxFrags)
                    \cup KeywordSet(emergency_keywords)
                    \cup KeywordSet(urgent_keywords)}
    \cup {None}

AdvisorDescriptions ==
    {Str(s) : s \in Concats(TipFragments, MaxTipFrags)} \cup {None, IntValue}

IssueTypes ==
    {Str(s) : s \in
        { "plumbing", "Plumbing", "plumb", "plumbing_issue", "Plumbing Issue",
          "plumbing toilet", "toilet", "electrical", "Electrical Outlet",
          "HVAC", "hvac heating", "hvac and plumbing", "appliance",
          "washer appliance", "door lock", "Door_Lock", "window",
          "General Maintenance", "general", "", "a", "l", "roof" }}
    \cup {None, IntValue}

Urgencies ==
    { Str("emergency"), Str("urgent"), Str("routine"), Str("high"),
      Str("Emergency"), None, ListValue }

-----------------------------------------------------------------------------
(* State machine: one invocation at a time *)

\* the contacts table before any call: one tenant and one prospect
SeedContacts ==
    { [id |-> Str("contact-1"), phone |-> Str("+15550001"), name |-> Str("Ana"),
       email |-> Str("ana@example.com"), type |-> Str("tenant")],
      [id |-> Str("contact-2"), phone |-> Str("+15550002"), name |-> None,
       email |-> None, type |-> Str("prospect")] }

\* time.time() when the process starts; never 0
StartTime == 1000

NoCall ==
    [fn |-> "none", issue_type |-> None, description |-> None, urgency |-> None]

Init ==
    /\ TROUBLESHOOTING_TIPS = TipCatalog
    /\ pc = "idle"
    /\ call = NoCall
    /\ ret = None
    /\ shared = NoList
    /\ prev = None
    /\ trace = << >>
    /\ ticket_rows = 0
    /\ calls = << >>
    /\ contacts = SeedContacts
    /\ memory_id_cache = None
    /\ cache_timestamp = None
    /\ clock = StartTime

CallAnalyzeUrgency ==
    /\ pc = "idle"
    /\ \E description \in ClassifierDescriptions :
        /\ call' = [fn |-> "analyze_urgency", issue_type |-> None,
                    description |-> description, urgency |-> None]
        /\ ret' = analyze_urgency(description)
    /\ pc' = "returned"
    /\ UNCHANGED <<TROUBLESHOOTING_TIPS, others>>

CallGetTroubleshootingTips ==
    /\ pc = "idle"
    /\ \E issue_type \in IssueTypes, description \in AdvisorDescriptions,
          urgency \in Urgencies :
        /\ call' = [fn |-> "get_troubleshooting_tips", issue_type |-> issue_type,
                    description |-> description, urgency |-> urgency]
        /\ ret' = get_troubleshooting_tips(issue_type, description, urgency)
    /\ pc' = "returned"
    /\ UNCHANGED <<TROUBLESHOOTING_TIPS, others>>

\* the caller is done with the result
Finish ==
    /\ pc = "returned"
    /\ pc' = "idle"
    /\ call' = NoCall
    /\ ret' = None
    /\ trace' = << >>
    /\ UNCHANGED <<TROUBLESHOOTING_TIPS, shared, prev, ticket_rows, stores>>

Next ==
    \/ CallAnalyzeUrgency
    \/ CallGetTroubleshootingTips
    \/ Finish

Spec == Init /\ [][Next]_vars

-----------------------------------------------------------------------------
(* The advisor on catalogs of other lengths.  TROUBLESHOOTING_TIPS is data *)
(* the advisor reads; the shipped lists have 3 to 5 tips, so the slice of  *)
(* line 201 cuts nothing until a list is lengthened.                       *)

\* number of tips added to a list of the catalog
MaxExtraTips == 2

ExtraTipPool ==
    << "Call the office if the problem returns",
       "Keep the area around the fixture clear",
       "Write down any error code you see",
       "Do not force any part that is stuck" >>

\* the shipped catalog with k tips appended to list j of category i
Lengthened(i, j, k) ==
    [TipCatalog EXCEPT ![i].subcats[j].tips = @ \o SubSeq(ExtraTipPool, 1, k)]

\* plumbing/toilet (5 tips) and hvac/general (4 tips) lengthened
Catalogs ==
    {TipCatalog}
    \cup {Lengthened(1, 2, k) : k \in 1..MaxExtraTips}
    \cup {Lengthened(3, 1, k) : k \in 1..MaxExtraTips}

CatalogDescriptions ==
    {Str(""), Str("Toilet is clogged"), Str("cooling and heating"), None, IntValue}

CatalogUrgencies == {Str("emergency"), Str("routine"), ListValue}

InitCatalog ==
    /\ TROUBLESHOOTING_TIPS \in Catalogs
    /\ pc = "idle"
    /\ call = NoCall
    /\ ret = None
    /\ shared = NoList
    /\ prev = None
    /\ trace = << >>
    /\ ticket_rows = 0
    /\ calls = << >>
    /\ contacts = SeedContacts
    /\ memory_id_cache = None
    /\ cache_timestamp = None
    /\ clock = StartTime

CallOnCatalog ==
    /\ pc = "idle"
    /\ \E issue_type \in IssueTypes, description \in CatalogDescriptions,
          urgency \in CatalogUrgencies :
        /\ call' = [fn |-> "get_troubleshooting_tips", issue_type |-> issue_type,
                    description |-> description, urgency |-> urgency]
        /\ ret' = get_troubleshooting_tips(issue_type, description, urgency)
    /\ pc' = "returned"
    /\ UNCHANGED <<TROUBLESHOOTING_TIPS, others>>

NextCatalog ==
    \/ CallOnCatalog
    \/ Finish

SpecCatalog == InitCatalog /\ [][NextCatalog]_vars

-----------------------------------------------------------------------------
(* Repeated invocations.  The advisor has no await, so an invocation runs  *)
(* to its return before another starts; between two invocations with the   *)
(* same arguments other invocations run and callers change the lists they  *)
(* were given.                                                             *)

\* invocations counted after the remembered one
MaxBetween == 2

RepeatIssueTypes == {Str("plumbing toilet"), Str("hvac"), Str("roof"), None}

RepeatDescriptions == {Str("Toilet is clogged"), Str("cooling and heating"), Str("")}

RepeatUrgencies == {Str("emergency"), Str("routine")}

CallAgain ==
    /\ pc = "idle"
    /\ \E issue_type \in RepeatIssueTypes, description \in RepeatDescriptions,
          urgency \in RepeatUrgencies, remember \in BOOLEAN :
        /\ call' = [fn |-> "get_troubleshooting_tips", issue_type |-> issue_type,
                    description |-> description, urgency |-> urgency]
        /\ ret' = get_troubleshooting_tips(issue_type, description, urgency)
        /\ shared' = ListSharedWith(issue_type, description, urgency)
        /\ prev' = IF remember \/ prev = None
                   THEN [call |-> call', ret |-> ret', calls |-> 0, mutated |-> FALSE]
                   ELSE [prev EXCEPT !.calls = IF @ < MaxBetween THEN @ + 1 ELSE @]
    /\ pc' = "returned"
    /\ UNCHANGED <<TROUBLESHOOTING_TIPS, trace, ticket_rows, stores>>

\* the caller changes the list it was given: tips.insert(0, ...)
CallerMutatesTips ==
    /\ pc = "returned"
    /\ call.fn = "get_troubleshooting_tips"
    /\ ret' = [ret EXCEPT !.tips = << "Tenant was told" >> \o @]
    /\ TROUBLESHOOTING_TIPS' =
          IF shared = NoList THEN TROUBLESHOOTING_TIPS
          ELSE [TROUBLESHOOTING_TIPS EXCEPT
                  ![shared[1]].subcats[shared[2]].tips = << "Tenant was told" >> \o @]
    /\ prev' = [prev EXCEPT !.mutated = TRUE]
    /\ pc' = "mutated"
    /\ UNCHANGED <<call, shared, trace, ticket_rows, stores>>

\* the caller is done with the result it changed
Discard ==
    /\ pc = "mutated"
    /\ pc' = "idle"
    /\ call' = NoCall
    /\ ret' = None
    /\ shared' = NoList
    /\ UNCHANGED <<TROUBLESHOOTING_TIPS, prev, trace, ticket_rows, stores>>

NextRepeat ==
    \/ CallAgain
    \/ CallerMutatesTips
    \/ Finish
    \/ Discard

SpecRepeat == Init /\ [][NextRepeat]_vars

-----------------------------------------------------------------------------
(* The SMS formatter on dicts with 0 to MaxSmsTips tips *)

\* longest tips list handed to the formatter
MaxSmsTips == 5

\* the lists the advisor can return from, lengthened by the extra tips
SmsSourceLists ==
    { TipCatalog[i].subcats[j].tips \o ExtraTipPool :
        i \in {1, 2, 3, 4}, j \in {1, 2} }
    \cup { EmergencyTips \o ExtraTipPool, GenericTips \o ExtraTipPool }

SmsEstimates ==
    { "Professional maintenance: 4-24 hours", "Emergency response dispatched",
      "1-3 business days" }

\* dicts with both keys, without "estimated_resolution", and without "tips"
SmsInputs ==
    { [tips |-> SubSeq(l, 1, n), estimated_resolution |-> e] :
        l \in SmsSourceLists, n \in 0..MaxSmsTips, e \in SmsEstimates }
    \cup { [tips |-> SubSeq(l, 1, n)] : l \in SmsSourceLists, n \in 0..MaxSmsTips }
    \cup { [estimated_resolution |-> e] : e \in SmsEstimates }

CallFormatTipsForSms ==
    /\ pc = "idle"
    /\ \E tips_data \in SmsInputs :
        /\ call' = [fn |-> "format_tips_for_sms", issue_type |-> None,
                    description |-> None, urgency |-> None,
                    tips_data |-> tips_data]
        /\ ret' = Str(format_tips_for_sms(tips_data))
    /\ pc' = "returned"
    /\ UNCHANGED <<TROUBLESHOOTING_TIPS, others>>

NextSms ==
    \/ CallFormatTipsForSms
    \/ Finish

SpecSms == Init /\ [][NextSms]_vars

-----------------------------------------------------------------------------
(* The two tool endpoints.  A handler runs to its return as one step: the   *)
(* awaits inside it are calls to the database and the classifier, whose      *)
(* outcomes are drawn here (query answered or failed, row inserted or not,   *)
(* notes stored or not).                                                     *)

\* rows the maintenance_tickets table can hold
MaxTickets == 2

ToolUnitNumbers == {Absent, None, Str("101"), Str("999")}

ToolIssueTypes == {Absent, None, Str("plumbing"), Str("roof")}

ToolDescriptions ==
    { Absent, None, IntValue, Str(""), Str("Toilet is clogged"),
      Str("gas leak in the kitchen"), Str("no hot water") }

ToolUrgencies ==
    { Absent, None, Str(""), Str("emergency"), Str("urgent"), Str("routine"),
      Str("high"), ListValue }

ToolRequests ==
    { [unit_number |-> n, issue_type |-> i, description |-> d, urgency |-> u] :
        n \in ToolUnitNumbers, i \in ToolIssueTypes, d \in ToolDescriptions,
        u \in ToolUrgencies }

\* the tips endpoint reads no unit number
TipsRequests == { r \in ToolRequests : r.unit_number = Absent }

ToolCall(fn, data) ==
    [fn |-> fn, issue_type |-> None, description |-> None, urgency |-> None,
     data |-> data]

CallCreateTicket ==
    /\ pc = "idle"
    /\ ticket_rows < MaxTickets
    /\ \E data \in ToolRequests, db_ok \in BOOLEAN, insert_ok \in BOOLEAN,
          notes_ok \in BOOLEAN :
        LET outcome == create_maintenance_ticket(data, db_ok, insert_ok, notes_ok,
                                                 ticket_rows)
        IN  /\ call' = ToolCall("create_maintenance_ticket", data)
            /\ ret' = outcome.ret
            /\ trace' = outcome.trace
            /\ ticket_rows' = outcome.rows
    /\ pc' = "returned"
    /\ UNCHANGED <<TROUBLESHOOTING_TIPS, shared, prev, stores>>

CallTipsEndpoint ==
    /\ pc = "idle"
    /\ \E data \in TipsRequests :
        LET outcome == get_troubleshooting_tips_endpoint(data)
        IN  /\ call' = ToolCall("get_troubleshooting_tips_endpoint", data)
            /\ ret' = outcome.ret
            /\ trace' = outcome.trace
    /\ pc' = "returned"
    /\ UNCHANGED <<TROUBLESHOOTING_TIPS, shared, prev, ticket_rows, stores>>

NextTools ==
    \/ CallCreateTicket
    \/ CallTipsEndpoint
    \/ Finish

SpecTools == Init /\ [][NextTools]_vars

-----------------------------------------------------------------------------
(* The memory-id cache over time.  Between two lookups the clock moves on;  *)
(* prev remembers the last fetch that brought an id and whether the latest   *)
(* fetch brought none.                                                       *)

\* seconds the clock moves between two lookups
TickSizes == {1799, 1800, 3600}

\* seconds the clock runs in all
MaxElapsed == 7200

\* prev after a lookup that contacted the remote API (events not empty)
Remembered(old, outcome, now) ==
    IF outcome.events = << >> THEN old
    ELSE IF Truthy(outcome.value)
    THEN [id |-> outcome.value, at |-> now, missed |-> FALSE]
    ELSE IF old = None THEN [id |-> None, at |-> 0, missed |-> TRUE]
    ELSE [old EXCEPT !.missed = TRUE]

CallGetCachedMemoryId ==
    /\ pc = "idle"
    /\ \E list_reply \in ListReplies, create_reply \in CreateReplies,
          remote_id \in RemoteIds :
        LET outcome == get_cached_memory_id(memory_id_cache, cache_timestamp, clock,
                                            list_reply, create_reply, remote_id)
        IN  /\ call' = ToolCall("_get_cached_memory_id", None)
            /\ ret' = outcome.value
            /\ trace' = outcome.events
            /\ memory_id_cache' = outcome.cache
            /\ cache_timestamp' = outcome.timestamp
            /\ prev' = Remembered(prev, outcome, clock)
    /\ pc' = "returned"
    /\ UNCHANGED <<TROUBLESHOOTING_TIPS, shared, ticket_rows, calls, contacts, clock>>

\* time passes while no lookup runs
Tick ==
    /\ pc = "idle"
    /\ \E d \in TickSizes :
        /\ clock + d <= StartTime + MaxElapsed
        /\ clock' = clock + d
    /\ UNCHANGED <<TROUBLESHOOTING_TIPS, pc, call, ret, shared, prev, trace,
                   ticket_rows, calls, contacts, memory_id_cache, cache_timestamp>>

NextMemory ==
    \/ CallGetCachedMemoryId
    \/ Tick
    \/ Finish

SpecMemory == Init /\ [][NextMemory]_vars

-----------------------------------------------------------------------------
(* Deliveries of the call-ended webhook.  One delivery runs to its reply as *)
(* one step; what the database, the language model, the mail service and    *)
(* the memory API do is drawn with it.                                      *)

\* rows the calls table can hold
MaxCalls == 1

\* transcripts of 0, 2, 20 and 21 characters, one of 21 blanks, and values
\* that are not a str
WebhookTranscripts ==
    { Absent, Str(""), Str("Hi"), Str("My sink is leaking!!"),
      Str("My sink is leaking!!!"), Str("                     "), IntValue }

\* the payload's "transcripts" array, read when there is no transcript text
WebhookUtterances == {Absent, ListValue, Utterances}

AllPayloads ==
    { [ call_id |-> Str("c-1"), from |-> f, to_number |-> t, call_length |-> l,
        concatenated_transcript |-> c, transcripts |-> u, variables |-> v ] :
        f \in {Absent, Str("+15550001")}, t \in {Absent, Str("+15559999")},
        l \in {Absent, Str("12.7"), ListValue},
        c \in WebhookTranscripts, u \in WebhookUtterances,
        v \in {Absent, Variables} }

\* the payloads without those that differ only in a key the handler does not
\* get to read: the array when there is transcript text, the variables when
\* there is no caller number, the other keys when the duration is an array
WebhookPayloads ==
    { p \in AllPayloads :
        /\ p.transcripts # Absent => p.concatenated_transcript \in {Absent, Str("")}
        /\ p.variables # Absent => p.from # Absent
        /\ p.call_length = Str("12.7") => p.to_number = Absent
        /\ p.call_length = ListValue
           => p.from # Absent /\ p.to_number = Absent /\ p.transcripts = Absent
              /\ p.variables = Absent }

\* settings.MANAGER_EMAIL: set, or empty
ManagerEmails == {Str("manager@property.com"), Str("")}

AllEnvironments ==
    [ save : InsertReplies, llm : LlmReplies, store_ok : BOOLEAN,
      manager_email : ManagerEmails, send_ok : BOOLEAN, flag_ok : BOOLEAN,
      list_reply : {"found", "error"}, post_reply : PostReplies ]

\* one environment for each course a delivery can take: what comes after a
\* failed step is never asked for and is fixed here
WebhookEnvironments ==
    { env \in AllEnvironments :
        /\ env.save = "rejected"
           => env.llm = "summary" /\ env.store_ok /\ env.send_ok
              /\ env.manager_email # Str("") /\ env.list_reply = "found"
        /\ env.manager_email = Str("") => env.send_ok
        /\ ~env.send_ok => env.flag_ok
        /\ env.list_reply = "error" => env.post_reply = "200" }

CallWebhook ==
    /\ pc = "idle"
    /\ Len(calls) < MaxCalls
    /\ \E data \in WebhookPayloads, env \in WebhookEnvironments :
        LET outcome == bland_call_ended_webhook(data, env, calls, memory_id_cache,
                                                cache_timestamp, clock)
        IN  /\ call' = ToolCall("bland_call_ended_webhook", data)
            /\ ret' = outcome.ret
            /\ trace' = outcome.trace
            /\ calls' = outcome.calls
            /\ memory_id_cache' = outcome.cache
            /\ cache_timestamp' = outcome.timestamp
    /\ pc' = "returned"
    /\ UNCHANGED <<TROUBLESHOOTING_TIPS, shared, prev, ticket_rows, contacts, clock>>

NextWebhook ==
    \/ CallWebhook
    \/ Finish

SpecWebhook == Init /\ [][NextWebhook]_vars

-----------------------------------------------------------------------------
(* The validate-contact endpoint, with the webhook that writes the calls *)

\* the payload's phone_number: no key, null, a number, empty, blank, a
\* tenant's, a tenant's with blanks around it, a prospect's, and a number
\* without a record
PhoneNumbers ==
    { Absent, None, IntValue, Str(""), Str("  "), Str("+15550001"),
      Str(" +15550001 "), Str("+15550002"), Str("+15559999") }

ContactPayloads == { [phone_number |-> p] : p \in PhoneNumbers }

AllContactEnvironments ==
    { [select |-> s, insert |-> i, count |-> c] :
        s \in SelectReplies, i \in ContactInsertReplies, c \in CountReplies }

\* the environments without those that differ only in a reply that is never
\* asked for
ContactEnvironments ==
    { env \in AllContactEnvironments :
        /\ env.select = "error" => env.insert = "inserted" /\ env.count = "count"
        /\ env.insert # "inserted" => env.count = "count" }

CallValidateContact ==
    /\ pc = "idle"
    /\ \E data \in ContactPayloads, env \in ContactEnvironments :
        LET outcome == validate_contact(data, env, contacts, calls)
        IN  /\ call' = ToolCall("validate_contact", data)
            /\ ret' = outcome.ret
            /\ trace' = outcome.trace
            /\ contacts' = outcome.contacts
    /\ pc' = "returned"
    /\ UNCHANGED <<TROUBLESHOOTING_TIPS, shared, prev, ticket_rows, calls,
                   memory_id_cache, cache_timestamp, clock>>

NextContact ==
    \/ CallValidateContact
    \/ CallWebhook
    \/ Finish

SpecContact == Init /\ [][NextContact]_vars

-----------------------------------------------------------------------------
(* Properties *)

AdvisorReturned == pc = "returned" /\ call.fn = "get_troubleshooting_tips"

ClassifierReturned == pc = "returned" /\ call.fn = "analyze_urgency"

\* the arguments have the types of the signature (str, Optional[str], str)
\* or None for the urgency
WellTyped ==
    /\ IsStr(call.issue_type)
    /\ call.description.t \in {"str", "NoneType"}
    /\ call.urgency.t \in {"str", "NoneType"}

\* C1: with urgency "emergency", every str issue type and every description
\* yield the fixed 4-item safety list and can_self_resolve = False, whatever
\* category or subcategory they would otherwise resolve to.
C1_EmergencyOverride ==
    (AdvisorReturned /\ IsStr(call.issue_type) /\ call.urgency = Str("emergency"))
    => /\ ret.tips = EmergencyTips
       /\ Len(ret.tips) = 4
       /\ ret.can_self_resolve = FALSE

\* an emergency call whose issue type and description name a category and a
\* subcategory of the catalog
C1_Witness ==
    /\ AdvisorReturned
    /\ call.issue_type = Str("plumbing toilet")
    /\ call.description = Str("Toilet is clogged")
    /\ call.urgency = Str("emergency")
    /\ ret = EmergencyResult

\* C2: with urgency "emergency", an issue type that cannot be normalized
\* (the fault of line 140) still yields the emergency safety list.
C2_EmergencySurvivesFault ==
    (AdvisorReturned /\ ~IsStr(call.issue_type) /\ call.urgency = Str("emergency"))
    => ret.tips = EmergencyTips

\* C3: can_self_resolve is true iff the urgency is routine and the category
\* of the result is plumbing, hvac or appliance.
C3_SelfResolveIff ==
    AdvisorReturned
    => (ret.can_self_resolve
        <=> (/\ call.urgency = Str("routine")
             /\ ret.category \in {Str("plumbing"), Str("hvac"), Str("appliance")}))

\* a routine call that resolves to an eligible category
C3_Witness ==
    /\ AdvisorReturned
    /\ call.urgency = Str("routine")
    /\ ret.category = Str("appliance")
    /\ ret.can_self_resolve

\* some keyword of the list is a substring of the lowercased description
HasKeyword(keywords, description) ==
    \E k \in KeywordSet(keywords) : In(k, Lower(description.v))

\* C4: a description whose lowercased text contains an emergency keyword is
\* classified emergency, also when it contains an urgent keyword.
C4_EmergencyFirst ==
    (ClassifierReturned /\ IsStr(call.description)
        /\ HasKeyword(emergency_keywords, call.description))
    => ret = Returned(Str("emergency"))

\* an urgent keyword followed by an emergency keyword in another letter case
C4_Witness ==
    /\ ClassifierReturned
    /\ call.description = Str("sink cloggedGas Leak")
    /\ HasKeyword(urgent_keywords, call.description)
    /\ ret = Returned(Str("emergency"))

\* C5: a description whose lowercased text contains an urgent keyword and no
\* emergency keyword is classified urgent.
C5_UrgentOnly ==
    (ClassifierReturned /\ IsStr(call.description)
        /\ HasKeyword(urgent_keywords, call.description)
        /\ ~HasKeyword(emergency_keywords, call.description))
    => ret = Returned(Str("urgent"))

\* the last urgent keyword, after a piece that is no keyword
C5_Witness ==
    /\ ClassifierReturned
    /\ call.description = Str("heatdrain clogged")
    /\ ret = Returned(Str("urgent"))

Tiers == {Str("emergency"), Str("urgent"), Str("routine")}

\* C6: for every str description the classifier returns one of the three
\* tiers and raises nothing; a description with no keyword (the empty and
\* the whitespace-only one among them) is classified routine.
C6_ClassifierTotal ==
    (ClassifierReturned /\ IsStr(call.description))
    => /\ ~ret.raised
       /\ ret.value \in Tiers
       /\ (~HasKeyword(emergency_keywords, call.description)
           /\ ~HasKeyword(urgent_keywords, call.description))
          => ret.value = Str("routine")
       /\ call.description \in {Str(""), Str(" "), Str("  ")}
          => ret.value = Str("routine")

\* a whitespace-only description
C6_Witness ==
    /\ ClassifierReturned
    /\ call.description = Str("  ")
    /\ ret = Returned(Str("routine"))

\* the tip list the catalog holds for a category and a subcategory
TipsOf(category, subcategory) ==
    LET c  == CHOOSE i \in 1..Len(TROUBLESHOOTING_TIPS) :
                  TROUBLESHOOTING_TIPS[i].key = category
        sc == TROUBLESHOOTING_TIPS[c].subcats
    IN  sc[CHOOSE j \in 1..Len(sc) : sc[j].key = subcategory].tips

\* t begins with the list s
BeginsWith(t, s) == Len(t) >= Len(s) /\ SubSeq(t, 1, Len(s)) = s

ToiletUrgentCall ==
    /\ AdvisorReturned
    /\ call.issue_type = Str("toilet")
    /\ call.description = Str("it keeps running")
    /\ call.urgency = Str("urgent")

\* C7 as stated: ("toilet", "it keeps running", urgent) returns tips that
\* begin with the plumbing/toilet tips, can_self_resolve = False and the
\* estimate "Professional maintenance: 4-24 hours".
C7_ToiletUrgent_AsStated ==
    ToiletUrgentCall
    => /\ BeginsWith(ret.tips, TipsOf("plumbing", "toilet"))
       /\ ret.can_self_resolve = FALSE
       /\ ret.estimated_resolution = "Professional maintenance: 4-24 hours"

\* C7 amended: "toilet" is no category key and contains none, so the same
\* call returns the 4-item generic list under category "general" with no
\* subcategory, can_self_resolve = False and the estimate
\* "Professional maintenance: 4-24 hours".
C7_ToiletUrgent ==
    ToiletUrgentCall
    => /\ ret.tips = << "Please document the issue with photos if possible",
                        "Note when the problem started and if it's getting worse",
                        "Check if the issue affects other areas of your unit",
                        "Our maintenance team will assess and resolve the issue" >>
       /\ ret.category = Str("general")
       /\ ret.subcategory = None
       /\ ret.can_self_resolve = FALSE
       /\ ret.estimated_resolution = "Professional maintenance: 4-24 hours"

C7_Witness == ToiletUrgentCall /\ ret.safety_warning = Absent

\* the enumeration order of the categories
CategoryOrder ==
    << "plumbing", "electrical", "hvac", "appliance", "door_lock", "window" >>

\* positions in CategoryOrder of the categories whose key contains the
\* normalized issue type n or is contained in it
MatchingCategories(n) ==
    {i \in 1..Len(CategoryOrder) :
        In(n, CategoryOrder[i]) \/ In(CategoryOrder[i], n)}

Least(S) == CHOOSE i \in S : \A j \in S : i <= j

\* the category the claim expects for the normalized issue type n
ExpectedCategory(n) ==
    IF MatchingCategories(n) = {} THEN "general"
    ELSE CategoryOrder[Least(MatchingCategories(n))]

\* C8: for a non-emergency request the category of the result is the first
\* category in the order plumbing, electrical, hvac, appliance, door_lock,
\* window whose key contains the normalized issue type or is contained in
\* it, and "general" when there is none; "plumb" and "plumbing_issue" give
\* plumbing.
C8_CategoryResolution ==
    (AdvisorReturned /\ WellTyped /\ call.urgency # Str("emergency"))
    => /\ ret.category = Str(ExpectedCategory(normalize(call.issue_type.v)))
       /\ call.issue_type \in {Str("plumb"), Str("plumbing_issue"), Str("Plumbing Issue")}
          => ret.category = Str("plumbing")
       /\ call.issue_type = Str("Door_Lock") => ret.category = Str("door_lock")

\* an issue type that contains two category keys, the later one first
C8_Witness ==
    /\ AdvisorReturned
    /\ call.issue_type = Str("hvac and plumbing")
    /\ call.urgency = Str("routine")
    /\ call.description = Str("")
    /\ ret.category = Str("plumbing")

\* positions of the subcategories of subcats, "general" excluded, whose name
\* occurs in the lowercased description or in the normalized issue type
MatchingSubcategories(subcats, description, n) ==
    {j \in 1..Len(subcats) :
        /\ subcats[j].key # "general"
        /\ In(subcats[j].key, Lower(description)) \/ In(subcats[j].key, n)}

\* the one list the claim expects the tips to be
ExpectedTips(category, description, n) ==
    LET c  == CHOOSE i \in 1..Len(TROUBLESHOOTING_TIPS) :
                  TROUBLESHOOTING_TIPS[i].key = category
        sc == TROUBLESHOOTING_TIPS[c].subcats
        present == IsStr(description) /\ description.v # ""
        m  == IF present THEN MatchingSubcategories(sc, description.v, n) ELSE {}
    IN  IF m = {} THEN TipsOf(category, "general") ELSE sc[Least(m)].tips

\* C9: when a category is resolved and a description is present (a non-empty
\* str), the tips are the list of the first subcategory, in declared order
\* and "general" excluded, whose name occurs in the lowercased description
\* or in the normalized issue type; with no such subcategory or no
\* description they are the category's "general" list.  One list, never two.
C9_SubcategoryResolution ==
    (AdvisorReturned /\ WellTyped /\ call.urgency # Str("emergency")
        /\ ret.category # Str("general"))
    => ret.tips = ExpectedTips(ret.category.v, call.description,
                               normalize(call.issue_type.v))

\* the subcategory is named by the issue type only
C9_Witness ==
    /\ AdvisorReturned
    /\ call.issue_type = Str("plumbing toilet")
    /\ call.description = Str("it keeps running")
    /\ call.urgency = Str("routine")
    /\ ret.subcategory = Str("toilet")
    /\ ret.tips = TipsOf("plumbing", "toilet")

\* every tip list of the catalog
CatalogLists ==
    UNION { {TROUBLESHOOTING_TIPS[i].subcats[j].tips :
                j \in 1..Len(TROUBLESHOOTING_TIPS[i].subcats)} :
            i \in 1..Len(TROUBLESHOOTING_TIPS) }

\* C10: a non-emergency request whose issue type matches no category gets
\* the fixed 4-item generic list, category "general", no subcategory and
\* can_self_resolve = False; when a category is resolved the tips are a list
\* of the catalog and not the generic list, every category having a
\* non-empty "general" entry.
C10_GlobalFallback ==
    /\ \A i \in 1..Len(TROUBLESHOOTING_TIPS) :
          /\ HasGeneral(TROUBLESHOOTING_TIPS[i].subcats)
          /\ GeneralOf(TROUBLESHOOTING_TIPS[i].subcats) # << >>
    /\ (AdvisorReturned /\ WellTyped /\ call.urgency # Str("emergency"))
       => IF MatchingCategories(normalize(call.issue_type.v)) = {}
          THEN /\ ret.tips = GenericTips
               /\ Len(ret.tips) = 4
               /\ ret.category = Str("general")
               /\ ret.subcategory = None
               /\ ret.can_self_resolve = FALSE
          ELSE /\ ret.tips \in CatalogLists
               /\ ret.tips # GenericTips
               /\ ret.category # Str("general")

\* the default issue type of the ticket endpoint matches no category
C10_Witness ==
    /\ AdvisorReturned
    /\ call.issue_type = Str("General Maintenance")
    /\ call.description = Str("Toilet is clogged")
    /\ call.urgency = Str("routine")
    /\ ret.tips = GenericTips
    /\ ret.category = Str("general")

\* the list the tips are taken from: the emergency list, the except-branch
\* list, the generic list, or the catalog list chosen by category and
\* subcategory
SourceList ==
    IF ~IsStr(call.issue_type) THEN ExceptResult.tips
    ELSE IF call.urgency = Str("emergency") THEN EmergencyTips
    ELSE IF ret = ExceptResult THEN ExceptResult.tips
    ELSE IF ret.category = Str("general") THEN GenericTips
    ELSE ExpectedTips(ret.category.v, call.description,
                      normalize(call.issue_type.v))

\* C11: on every return path the tips list has 1 to 5 entries, and it is the
\* source list cut to its first 5 entries, in order, when that list is longer.
C11_TipsLength ==
    AdvisorReturned
    => /\ Len(ret.tips) >= 1
       /\ Len(ret.tips) <= 5
       /\ Len(SourceList) <= 5 => ret.tips = SourceList
       /\ Len(SourceList) > 5
          => /\ Len(ret.tips) = 5
             /\ \A k \in 1..5 : ret.tips[k] = SourceList[k]

\* a catalog list of more than 5 tips was selected and cut
C11_Witness ==
    /\ AdvisorReturned
    /\ call.issue_type = Str("plumbing toilet")
    /\ call.urgency = Str("routine")
    /\ ret.subcategory = Str("toilet")
    /\ Len(TipsOf("plumbing", "toilet")) > 5
    /\ Len(ret.tips) = 5

\* the call raises inside the try block: a non-str issue type at line 140,
\* or, past the emergency return, a truthy non-str description once a
\* category is resolved (line 168) or an unhashable urgency (line 198)
Faulted ==
    \/ ~IsStr(call.issue_type)
    \/ /\ call.urgency # Str("emergency")
       /\ \/ /\ MatchingCategories(normalize(call.issue_type.v)) # {}
             /\ call.description.t \notin {"str", "NoneType"}
          \/ call.urgency.t = "list"

\* the table of the claim
TierTable(urgency) ==
    CASE urgency = Str("emergency") -> "0-2 hours"
      [] urgency = Str("urgent")    -> "4-24 hours"
      [] urgency = Str("routine")   -> "1-3 business days"

\* C12 as stated: for every advisor result and every tier the estimate is
\* "Professional maintenance: " followed by the tier's table entry (stated
\* here for the calls whose arguments have the types of the signature).
C12_Estimate_AsStated ==
    (AdvisorReturned /\ WellTyped /\ call.urgency \in Tiers)
    => ret.estimated_resolution
         = "Professional maintenance: " \o TierTable(call.urgency)

\* C12 amended: on the normal path (no fault, urgency not emergency) the
\* estimate is "Professional maintenance: " followed by "4-24 hours" for
\* urgent and "1-3 business days" for routine and for any other urgency,
\* also when can_self_resolve is true; the emergency path gives
\* "Emergency response dispatched" and a faulted call "1-3 business days".
C12_Estimate ==
    AdvisorReturned
    => ret.estimated_resolution
         = IF Faulted THEN "1-3 business days"
           ELSE IF call.urgency = Str("emergency") THEN "Emergency response dispatched"
           ELSE IF call.urgency = Str("urgent") THEN "Professional maintenance: 4-24 hours"
           ELSE "Professional maintenance: 1-3 business days"

\* an urgent call on the normal path
C12_Witness ==
    /\ AdvisorReturned
    /\ call.urgency = Str("urgent")
    /\ call.issue_type = Str("appliance")
    /\ ~Faulted
    /\ ret.estimated_resolution = "Professional maintenance: 4-24 hours"

\* C13: whatever the three arguments are, the call returns a dict with a
\* tips list, can_self_resolve and estimated_resolution; no exception leaves
\* the function.
C13_NothingPropagates ==
    AdvisorReturned
    => /\ {"tips", "can_self_resolve", "estimated_resolution"} \subseteq DOMAIN ret
       /\ "raised" \notin DOMAIN ret
       /\ DOMAIN ret.tips = 1..Len(ret.tips)
       /\ ret.can_self_resolve \in BOOLEAN

\* none of the three arguments has the type the code expects
C13_Witness ==
    /\ AdvisorReturned
    /\ call.issue_type = Str("plumbing")
    /\ call.description = IntValue
    /\ call.urgency = ListValue
    /\ Faulted
    /\ ret = ExceptResult

C16_SafetyWarningIff ==
    AdvisorReturned
    => (ret.safety_warning # Absent <=> call.urgency = Str("emergency"))

SmsReturned == pc = "returned" /\ call.fn = "format_tips_for_sms"

\* the message the claim describes for the tips t and the estimate e
ExpectedSms(t, e) ==
    "Troubleshooting tips:\n"
    \o "1. " \o t[1] \o "\n"
    \o (IF Len(t) >= 2 THEN "2. " \o t[2] \o "\n" ELSE "")
    \o (IF Len(t) >= 3 THEN "3. " \o t[3] \o "\n" ELSE "")
    \o "\nETA: " \o e

\* C17: the SMS text shows the first min(3, n) tips, numbered from 1 in
\* their order, then the line "ETA: <estimated_resolution>"; with an empty
\* or missing tips list it is the fixed sentence alone.
C17_SmsFormat ==
    SmsReturned
    => LET td == call.tips_data
           n  == IF "tips" \in DOMAIN td THEN Len(td.tips) ELSE 0
           e  == IF "estimated_resolution" \in DOMAIN td
                 THEN td.estimated_resolution ELSE "Soon"
       IN  IF n = 0
           THEN ret = Str("Maintenance request received. Our team will contact you soon.")
           ELSE ret = Str(ExpectedSms(td.tips, e))

\* five tips in, three rendered
C17_Witness ==
    /\ SmsReturned
    /\ "tips" \in DOMAIN call.tips_data
    /\ "estimated_resolution" \in DOMAIN call.tips_data
    /\ call.tips_data.tips = TipsOf("plumbing", "toilet")
    /\ ret = Str(ExpectedSms(call.tips_data.tips, call.tips_data.estimated_resolution))

\* C30: with an issue type that is the empty string after normalization and
\* an urgency other than "emergency", the category is plumbing, the first
\* key of the catalog, the empty string being a substring of every category
\* key; the tips are plumbing tips and not the generic list, and for routine
\* urgency can_self_resolve is True.
C30_EmptyIssueType ==
    (AdvisorReturned /\ WellTyped /\ normalize(call.issue_type.v) = ""
        /\ call.urgency # Str("emergency"))
    => /\ \A i \in 1..Len(TROUBLESHOOTING_TIPS) : In("", TROUBLESHOOTING_TIPS[i].key)
       /\ TROUBLESHOOTING_TIPS[1].key = "plumbing"
       /\ ret.category = Str("plumbing")
       /\ ret.tips = ExpectedTips("plumbing", call.description, "")
       /\ ret.tips # GenericTips
       /\ call.urgency = Str("routine") => ret.can_self_resolve = TRUE

\* a routine request with an empty issue type and no description
C30_Witness ==
    /\ AdvisorReturned
    /\ call.issue_type = Str("")
    /\ call.description = None
    /\ call.urgency = Str("routine")
    /\ ret.category = Str("plumbing")
    /\ ret.tips = TipsOf("plumbing", "general")
    /\ ret.can_self_resolve = TRUE

-----------------------------------------------------------------------------
(* Properties of the tool endpoints *)

TicketReturned == pc = "returned" /\ call.fn = "create_maintenance_ticket"

TipsEndpointReturned == pc = "returned" /\ call.fn = "get_troubleshooting_tips_endpoint"

\* positions in the trace of the calls to op
Calls(op) == { i \in DOMAIN trace : trace[i].op = op }

\* the request carries no urgency: no key, null, or the empty string
NoUrgency(data) == data.urgency \in {Absent, None, Str("")}

\* the description the handler works with
DescriptionOf(data) == IF data.description = Absent THEN Str("") ELSE data.description

\* C18: in the ticket-creation endpoint, a request without urgency has the
\* classifier invoked on the description before the ticket is built, and the
\* tier it returns is stored on the ticket and passed to the advisor; a
\* declared urgency is used unchanged for both and the classifier is not
\* invoked.
C18_ClassifierThenAdvisor ==
    TicketReturned =>
        LET data == call.data
            classified == Calls("analyze_urgency")
            inserted == Calls("create_maintenance_ticket")
            advised == Calls("get_troubleshooting_tips")
        IN  IF NoUrgency(data)
            THEN /\ Calls("get_unit_by_number") # {} /\ trace[1].result # None
                    => /\ classified = {2}
                       /\ trace[2].arg = DescriptionOf(data)
                       /\ trace[2].result = analyze_urgency(DescriptionOf(data))
                 /\ \A i \in inserted :
                       /\ 2 < i
                       /\ ~trace[2].result.raised
                       /\ trace[i].arg.urgency = trace[2].result.value
                 /\ \A a \in advised :
                       /\ 2 < a
                       /\ trace[a].arg[3] = trace[2].result.value
            ELSE /\ classified = {}
                 /\ \A i \in inserted : trace[i].arg.urgency = data.urgency
                 /\ \A a \in advised : trace[a].arg[3] = data.urgency

\* a request without urgency was classified as an emergency, the ticket was
\* inserted with that tier and the advisor was asked with it
C18_Witness ==
    /\ TicketReturned
    /\ call.data.urgency = Absent
    /\ Calls("analyze_urgency") = {2}
    /\ trace[2].result = Returned(Str("emergency"))
    /\ Calls("create_maintenance_ticket") = {3}
    /\ trace[3].arg.urgency = Str("emergency")
    /\ Calls("get_troubleshooting_tips") = {4}
    /\ trace[4].arg[3] = Str("emergency")

\* C19: in the tips endpoint, a request without urgency field has the urgency
\* that is passed to the advisor derived from the description by the
\* classifier, so that a description with an emergency keyword is handled as
\* an emergency.
C19_TipsUrgencyDerived ==
    TipsEndpointReturned /\ call.data.urgency = Absent
        /\ IsStr(DescriptionOf(call.data))
    => LET tier == analyze_urgency(DescriptionOf(call.data)).value
       IN  /\ \A a \in Calls("get_troubleshooting_tips") : trace[a].arg[3] = tier
           /\ tier = Str("emergency") => ret.tips = EmergencyTips

\* C20: for every request whose unit number resolves to a unit the ticket
\* insert is performed, whatever issue_type, description and urgency hold
\* (absent and null included), and the advisor is invoked only after the
\* insert.
C20_InsertNeverGated ==
    TicketReturned
    => /\ (Calls("get_unit_by_number") # {} /\ trace[1].result # None)
          => Calls("create_maintenance_ticket") # {}
       /\ \A a \in Calls("get_troubleshooting_tips") :
             \E i \in Calls("create_maintenance_ticket") : i < a

\* every tip of the catalog
CatalogTips ==
    UNION { {l[k] : k \in 1..Len(l)} : l \in CatalogLists }

\* the urgency the ticket endpoint works with: the declared one, or the
\* classifier's tier for the description
TicketUrgency(data) ==
    IF ~NoUrgency(data) THEN data.urgency
    ELSE IF IsStr(DescriptionOf(data)) THEN analyze_urgency(DescriptionOf(data)).value
    ELSE None

Min(a, b) == IF a < b THEN a ELSE b

\* C22: the ticket-creation endpoint speaks at most 2 tips and persists at
\* most 3: the response holds only the first min(2, n) advisor tips, the notes
\* update and the returned troubleshooting_tips hold exactly the first
\* min(3, n) advisor tips in order, and a failed notes update leaves the
\* response as it is.
C22_SpeakTwoPersistThree ==
    TicketReturned /\ Calls("get_troubleshooting_tips") # {}
    => LET a == CHOOSE i \in Calls("get_troubleshooting_tips") : TRUE
           tips == trace[a].result.tips
           n == Len(tips)
           urgency == trace[a].arg[3]
           noted == Calls("update_notes")
       IN  /\ \A k \in 1..n : In(tips[k], ret.response) => k <= Min(2, n)
           /\ urgency \in {Str("urgent"), Str("routine")}
              => \A k \in 1..Min(2, n) :
                    In(IntToStr(k) \o ". " \o tips[k] \o ". ", ret.response)
           /\ ret.troubleshooting_tips = SubSeq(tips, 1, Min(3, n))
           /\ Cardinality(noted) = 1
           /\ \A u \in noted :
                 /\ a < u
                 /\ trace[u].arg =
                      Str("Troubleshooting tips provided: " \o Join(SubSeq(tips, 1, Min(3, n)), 1))
                 /\ \A k \in 1..n : In(tips[k], trace[u].arg.v) <=> k <= Min(3, n)
                 /\ trace[u].result = Str("failed")
                    => ret = create_maintenance_ticket(call.data, TRUE, TRUE, TRUE,
                                                       ticket_rows - 1).ret

\* five tips came back for a routine request, two were spoken, three went
\* into the notes, and the notes update failed
C22_Witness ==
    /\ TicketReturned
    /\ Calls("get_troubleshooting_tips") # {}
    /\ Len(trace[Len(trace) - 1].result.tips) = 5
    /\ trace[Len(trace) - 1].arg[3] = Str("routine")
    /\ trace[Len(trace)].op = "update_notes"
    /\ trace[Len(trace)].result = Str("failed")
    /\ Len(ret.troubleshooting_tips) = 3
    /\ In("2. ", ret.response)

\* the request names a unit of the units table
HasKnownUnit(data) ==
    /\ data.unit_number \notin {Absent, None, Str("")}
    /\ IsStr(data.unit_number)
    /\ data.unit_number.v \in UnitsTable

\* C26: without a unit number, or with a number no unit has, the
\* ticket-creation endpoint inserts no ticket and invokes neither the
\* classifier nor the advisor; it only returns a response that asks for the
\* unit number or asks to re-check it.
C26_NoUnitNoTicket ==
    (TicketReturned /\ ~HasKnownUnit(call.data))
    => /\ Calls("create_maintenance_ticket") = {}
       /\ Calls("analyze_urgency") = {}
       /\ Calls("get_troubleshooting_tips") = {}
       /\ Calls("update_notes") = {}
       /\ DOMAIN ret = {"response"}
       /\ \/ In("What unit do you live in?", ret.response)
          \/ In("double-check that unit number", ret.response)

\* unit 999 does not exist: the lookup was made and nothing else
C26_Witness ==
    /\ TicketReturned
    /\ call.data.unit_number = Str("999")
    /\ call.data.urgency = Absent
    /\ Len(trace) = 1
    /\ trace[1].op = "get_unit_by_number"
    /\ trace[1].result = None
    /\ In("I couldn't find unit 999", ret.response)

\* a lookup starts
LookupStep ==
    pc = "idle" /\ pc' = "returned" /\ call'.fn = "_get_cached_memory_id"

\* C28: after a fetch that returned a memory id, every lookup within the next
\* 3600 seconds returns that id without contacting the remote API; a fetch
\* that returned no id is not cached and does not overwrite a cached id, so
\* that the next lookup contacts the remote API again.
C28_MemoryIdCache ==
    [][ LookupStep
        => /\ (prev # None /\ Truthy(prev.id) /\ clock - prev.at < 3600)
              => (ret' = prev.id /\ trace' = << >>)
           /\ (trace' # << >> /\ ~Truthy(ret'))
              => UNCHANGED <<memory_id_cache, cache_timestamp>>
           /\ (prev # None /\ prev.missed) => trace' # << >>
      ]_vars

\* an id fetched 3599 seconds ago is handed out without a remote call
C28_Witness ==
    /\ pc = "returned"
    /\ call.fn = "_get_cached_memory_id"
    /\ prev # None
    /\ Truthy(prev.id)
    /\ clock - prev.at = 3599
    /\ trace = << >>
    /\ ret = prev.id

-----------------------------------------------------------------------------
(* Properties of the call-ended webhook *)

WebhookReturned == pc = "returned" /\ call.fn = "bland_call_ended_webhook"

\* positions of the two kinds of update of the call record
StoreSummary == { i \in Calls("update_call_record") : "summary" \in DOMAIN trace[i].arg }

SetEmailSent == { i \in Calls("update_call_record") : "email_sent" \in DOMAIN trace[i].arg }

\* every position of a comes before every position of b
Before(a, b) == \A i \in a, j \in b : i < j

\* the call record was saved
Saved == Calls("create_call_record") = {1} /\ trace[1].result # None

\* C23: in the call-ended webhook, summary generation, the summary email and
\* the memory update are attempted only after the call record was saved and
\* only when the transcript is longer than 20 characters, and the steps come
\* in the order save call, generate summary, store summary, send email,
\* update memory.
C23_WebhookOrder ==
    WebhookReturned
    => LET generate == Calls("generate_call_summary")
           send == Calls("send_call_summary_email")
           memory == Calls("update_user_memory")
       IN  /\ (generate \cup StoreSummary \cup send \cup memory) # {}
              => /\ Saved
                 /\ Truthy(trace[1].arg.transcript)
                 /\ PyLen(trace[1].arg.transcript) > 20
           /\ (StoreSummary \cup send \cup memory) # {}
              => /\ IsStr(trace[1].arg.transcript)
                 /\ Len(trace[1].arg.transcript.v) > 20
           /\ Before(Calls("create_call_record"), generate)
           /\ Before(generate, StoreSummary)
           /\ Before(StoreSummary, send)
           /\ Before(send, memory)
           /\ send # {} => generate # {} /\ StoreSummary # {}
           /\ memory # {} => send # {}
           /\ \A steps \in {generate, StoreSummary, send, memory} : Cardinality(steps) <= 1

\* all five steps were taken for a transcript of 21 characters
C23_Witness ==
    /\ WebhookReturned
    /\ Len(trace) >= 5
    /\ trace[1].arg.transcript = Str("My sink is leaking!!!")
    /\ trace[2].op = "generate_call_summary"
    /\ 3 \in StoreSummary
    /\ trace[4].op = "send_call_summary_email"
    /\ trace[Len(trace)].op = "update_user_memory"

\* C24: the memory update is best-effort: whatever way it fails (no memory
\* store, non-200 reply, timeout, network error, exception) the webhook still
\* answers with status "success"; and it is attempted whenever a caller
\* number is present, whether or not the email was sent.
C24_MemoryBestEffort ==
    WebhookReturned
    => LET send == Calls("send_call_summary_email")
           memory == Calls("update_user_memory")
       IN  /\ memory # {}
              => /\ ret.status_code = 200
                 /\ ret.content.status = "success"
                 /\ ret = Processed(trace[1].result.id)
           /\ (send # {} /\ Truthy(trace[1].arg.from_number)) => memory # {}
           /\ \A m \in memory : trace[m].arg = trace[1].arg.from_number

\* the email was not sent, the memory update timed out, and the reply is
\* "success"
C24_Witness ==
    /\ WebhookReturned
    /\ \E i \in Calls("send_call_summary_email") : trace[i].result = FALSE
    /\ \E i \in Calls("memory_update") : trace[i].result = "timeout"
    /\ \E i \in Calls("update_user_memory") : trace[i].result = FALSE
    /\ ret.content.status = "success"

\* C25: when the call record cannot be saved the webhook answers HTTP 200
\* with status "error" and attempts no summary, no email and no memory
\* update for that delivery.
C25_SaveFailure ==
    (WebhookReturned /\ Calls("create_call_record") # {} /\ trace[1].result = None)
    => /\ ret.status_code = 200
       /\ ret.content.status = "error"
       /\ Len(trace) = 1

\* the insert was rejected for a delivery with a long transcript and a caller
\* number
C25_Witness ==
    /\ WebhookReturned
    /\ Len(trace) = 1
    /\ trace[1].op = "create_call_record"
    /\ trace[1].result = None
    /\ trace[1].arg.transcript = Str("My sink is leaking!!!")
    /\ Truthy(trace[1].arg.from_number)
    /\ ret.content.status = "error"

\* the row of the calls table that the delivery in progress made
RowOfDelivery == { i \in DOMAIN calls : calls[i].id = trace[1].result.id }

\* C27: the call record's email_sent flag is set to true only after the email
\* send for that call returned success; never when the send failed, when no
\* recipient is configured or when summary generation was skipped.
C27_EmailSentFlag ==
    (WebhookReturned /\ Saved)
    => LET send == Calls("send_call_summary_email")
           sent == \E i \in send : trace[i].result = TRUE
       IN  /\ SetEmailSent # {} => sent /\ Before(send, SetEmailSent)
           /\ \A r \in RowOfDelivery : calls[r].email_sent = TRUE => sent
           /\ \A i \in send : trace[i].arg = Str("") => trace[i].result = FALSE

\* the email went out and the flag was written to the row
C27_Witness ==
    /\ WebhookReturned
    /\ Saved
    /\ \E i \in Calls("send_call_summary_email") : trace[i].result = TRUE
    /\ SetEmailSent # {}
    /\ \E r \in RowOfDelivery : calls[r].email_sent = TRUE


-----------------------------------------------------------------------------
(* Properties of the validate-contact endpoint *)

ValidateReturned == pc = "returned" /\ call.fn = "validate_contact"

\* the lookup found no record for the phone number of the request
NoRecord == \E i \in Calls("contacts.select") : trace[i].result = None

\* C29: for a phone number that has no contact record the validate-contact
\* endpoint reports contact_found = false with the message "New caller - no
\* previous record" and returns no contact details.
C29_NewCaller ==
    (ValidateReturned /\ NoRecord) => ret = NewCaller

====
